---- MODULE Spec2Model ----
(***************************************************************************)
(* Ground-truth pair enumeration of the OOLONG-Pairs benchmark.            *)
(*                                                                         *)
(* Two enumerators are modelled, statement by statement:                   *)
(*   compute_ground_truth        generate_oolong_pairs.py  (impl = "prod") *)
(*   compute_ground_truth_pairs  generate_dataset.py       (impl = "lite") *)
(* A behaviour is one call: the arguments are fixed by Init, Call runs the *)
(* prologue (sorting the user ids, parsing the date bound), one Step       *)
(* action runs one iteration of the inner loop of the branch the task      *)
(* type selects, and Return ends the call.                                 *)
(*                                                                         *)
(* Specifications:                                                         *)
(*   Spec           one call of either enumerator on well-formed input     *)
(*   SpecInvalid    one call on unknown categories or malformed dates      *)
(*   SpecRerun      two calls of compute_ground_truth on the same input    *)
(*   SpecEval       evaluate.main: parse_pairs, compute_f1, the report     *)
(*   SpecRoundTrip  a returned list written as text and JSON, read back    *)
(*                  and scored by evaluate.main                            *)
(***************************************************************************)
EXTENDS Integers, Sequences, FiniteSets, TLC

VARIABLES
    impl,         \* which enumerator is called: "prod" or "lite"
    keyKind,      \* Python type of the keys of the store: "int" or "str"
    user_labels,  \* the store argument (ground_truth in the lite enumerator)
    task,         \* the task argument
    user_ids,     \* local: the sorted list of user ids
    cutoff,       \* local: the parsed date bound
    i,            \* local: index of uid1 in user_ids (1-based)
    j,            \* local: index of uid2 in user_ids (1-based)
    pairs,        \* local: the result list
    pc,           \* "call", "loop", "returned" or "raised"
    call_no,      \* how many calls of the enumerator have begun
    first_result, \* the list the first call returned, once a second began
    correct_pairs,    \* evaluate.main: data["correct_pairs"] of the data set
    prediction_text,  \* evaluate.main: the candidate answer, a text
    ground_truth,     \* evaluate.main: the set of reference pairs
    predicted,        \* evaluate.main: the set parse_pairs extracts
    metrics,          \* evaluate.main: the dict compute_f1 returns
    epc,              \* evaluate.main: "idle", "load", "parse", "score",
                      \* "report", "reported" or "raised"
    target_tokens,    \* generate_dataset: the argument
    trec,             \* generate_dataset: the loaded question data set
    draws,            \* generate_dataset: what the seeded generator returns
    gen_entries,      \* generate_dataset: the list entries
    current_tokens,   \* generate_dataset: the running token count
    question_idx,     \* generate_dataset: the loop counter
    timestamp,        \* generate_dataset: the timestamp last generated
    gpc,              \* generate_dataset: "idle", "start", "loop",
                      \* "break" or "returned"
    questions_list,   \* split_for_classification: the input list
    num_batches,      \* split_for_classification: the argument
    batches,          \* split_for_classification: the list of batches
    batch_files,      \* the batch_<i>.json files: index |-> content, run
    spc,              \* split_for_classification and the steps after it
    classified_data,  \* find_user_pairs.py: classified_all.json
    target_users,     \* find_user_pairs.py: the qualifying users
    found_pairs,      \* find_user_pairs.py: the pairs
    fpc               \* find_user_pairs.py: "idle", "users", "pairs", "done"

\* The variables of a caller of the enumerator.
callVars == <<call_no, first_result>>

\* The variables of evaluate.main.
evalVars ==
    <<correct_pairs, prediction_text, ground_truth, predicted, metrics, epc>>

\* The variables of a call of an enumerator.
enumVars ==
    <<impl, keyKind, user_labels, task, user_ids, cutoff, i, j, pairs, pc>>

\* The variables of generate_dataset.
genVars ==
    <<target_tokens, trec, draws, gen_entries, current_tokens, question_idx,
      timestamp, gpc>>

\* The variables of the classification batches.
splitVars == <<questions_list, num_batches, batches, batch_files, spc>>

\* The variables of find_user_pairs.py.
pipeVars == <<classified_data, target_users, found_pairs, fpc>>

\* The variables of the scripts around the enumerators and the scorer.
scriptVars == <<genVars, splitVars, pipeVars>>

vars == <<enumVars, callVars, evalVars, scriptVars>>

(***************************************************************************)
(* Bounds of the model.                                                    *)
(***************************************************************************)
\* Total number of events of a store (entries of the data set).
MaxEvents == 4

\* The user ids of the model, as numbers.  9 and 10 differ in their number
\* of digits, so the numeric and the string order of the ids differ.
UserNums == {9, 10, 11}

(***************************************************************************)
(* Python values.                                                          *)
(***************************************************************************)
\* str(n): a numeric string is the sequence of its decimal digits.
RECURSIVE str(_)
str(n) == IF n < 10 THEN <<n>> ELSE Append(str(n \div 10), n % 10)

\* int(s)
RECURSIVE int(_)
int(s) == IF Len(s) = 0 THEN 0
          ELSE 10 * int(SubSeq(s, 1, Len(s) - 1)) + s[Len(s)]

\* s < t on Python strings of digits: lexicographic by character.
RECURSIVE StrLess(_, _)
StrLess(s, t) ==
    IF Len(t) = 0 THEN FALSE
    ELSE IF Len(s) = 0 THEN TRUE
    ELSE IF s[1] # t[1] THEN s[1] < t[1]
    ELSE StrLess(Tail(s), Tail(t))

\* a < b on two keys of the same Python type.
KeyLess(kind, a, b) == IF kind = "int" THEN a < b ELSE StrLess(a, b)

\* sorted(keys): the keys in ascending order of Python's <.
RECURSIVE Sorted(_, _)
Sorted(kind, S) ==
    IF S = {} THEN <<>>
    ELSE LET m == CHOOSE x \in S : \A y \in S : x = y \/ KeyLess(kind, x, y)
         IN  <<m>> \o Sorted(kind, S \ {m})

Range(s) == {s[k] : k \in DOMAIN s}

(***************************************************************************)
(* Dates.  A date string is a record of its fields; fmt is the syntax of   *)
(* the string: "mdy" is 'Mar 14, 2023' (%b %d, %Y), "iso" is '2023-03-14'  *)
(* (%Y-%m-%d), anything else matches neither format.                       *)
(***************************************************************************)
MonthOfAbbr ==
    [Jan |-> 1, Feb |-> 2, Mar |-> 3, Apr |-> 4, May |-> 5, Jun |-> 6,
     Jul |-> 7, Aug |-> 8, Sep |-> 9, Oct |-> 10, Nov |-> 11, Dec |-> 12]

MonthOfDigits ==
    ("01" :> 1) @@ ("02" :> 2) @@ ("03" :> 3) @@ ("04" :> 4) @@ ("05" :> 5)
    @@ ("06" :> 6) @@ ("07" :> 7) @@ ("08" :> 8) @@ ("09" :> 9)
    @@ ("10" :> 10) @@ ("11" :> 11) @@ ("12" :> 12)

ValueError == <<"ValueError">>

\* parse_date: strptime with '%b %d, %Y', and on any exception strptime with
\* '%Y-%m-%d', whose exception propagates.  A datetime at midnight is the
\* triple <<year, month, day>>.
parse_date(date_str) ==
    IF date_str.fmt = "mdy" /\ date_str.mon \in DOMAIN MonthOfAbbr
    THEN <<date_str.year, MonthOfAbbr[date_str.mon], date_str.day>>
    ELSE IF date_str.fmt = "iso" /\ date_str.mon \in DOMAIN MonthOfDigits
    THEN <<date_str.year, MonthOfDigits[date_str.mon], date_str.day>>
    ELSE ValueError

\* Mutation of DateLess: the bound day itself satisfies the bound (<=).
DateLessOrEqual(a, b) ==
    \/ a[1] < b[1]
    \/ a[1] = b[1] /\ a[2] < b[2]
    \/ a[1] = b[1] /\ a[2] = b[2] /\ a[3] <= b[3]

\* datetime.__lt__ on two parsed dates.
DateLess(a, b) ==
    \/ a[1] < b[1]
    \/ a[1] = b[1] /\ a[2] < b[2]
    \/ a[1] = b[1] /\ a[2] = b[2] /\ a[3] < b[3]

(***************************************************************************)
(* The predicates of compute_ground_truth (generate_oolong_pairs.py).      *)
(***************************************************************************)
\* set(e["label"] for e in entries)
LabelsOf(entries) == {entries[k].label : k \in DOMAIN entries}

\* Mutation of BothHaveAny: "or" for "and".
BothHaveAnyEither(entries1, entries2, target_cats) ==
    \/ LabelsOf(entries1) \cap target_cats # {}
    \/ LabelsOf(entries2) \cap target_cats # {}

\* (cats1 & target_cats) and (cats2 & target_cats)
BothHaveAny(entries1, entries2, target_cats) ==
    /\ LabelsOf(entries1) \cap target_cats # {}
    /\ LabelsOf(entries2) \cap target_cats # {}

\* date_check: the lambda chosen by the key of date_constraint; the outcome
\* is "True", "False" or "ValueError" (parse_date raised).
date_check(kind, ts, bound) ==
    LET d == parse_date(ts)
    IN  IF d = ValueError THEN "ValueError"
        ELSE IF kind = "before"
        THEN (IF DateLess(d, bound) THEN "True" ELSE "False")
        ELSE (IF DateLess(bound, d) THEN "True" ELSE "False")

\* Mutation of user_passes_date: a user passes only with an event of the
\* date category that satisfies the bound.
user_passes_date_nonvacuous(entries, date_cat, kind, bound) ==
    LET dated == {k \in DOMAIN entries : entries[k].label = date_cat}
    IN  IF dated # {}
           /\ \A k \in dated :
                 date_check(kind, entries[k].timestamp, bound) = "True"
        THEN "True"
        ELSE "False"

\* user_passes_date: the events in list order, returning False at the first
\* event of the date category that fails the check.
RECURSIVE user_passes_date(_, _, _, _)
user_passes_date(entries, date_cat, kind, bound) ==
    IF Len(entries) = 0 THEN "True"
    ELSE IF Head(entries).label = date_cat
    THEN LET r == date_check(kind, Head(entries).timestamp, bound)
         IN  IF r = "True"
             THEN user_passes_date(Tail(entries), date_cat, kind, bound)
             ELSE r
    ELSE user_passes_date(Tail(entries), date_cat, kind, bound)

\* The body of the inner loop of the both_have_any_with_date branch:
\* "True" (append), "False" (no append) or "ValueError".
BothHaveAnyWithDate(entries1, entries2, target_cats, date_cat, kind, bound) ==
    IF ~BothHaveAny(entries1, entries2, target_cats) THEN "False"
    ELSE LET r1 == user_passes_date(entries1, date_cat, kind, bound)
         IN  IF r1 = "True"
             THEN user_passes_date(entries2, date_cat, kind, bound)
             ELSE r1

\* label_counts.get(cat, 0) after the counting pass of check_user_constraint.
label_count(user_entries, cat) ==
    Cardinality({k \in DOMAIN user_entries : user_entries[k].label = cat})

\* Mutation of check_user_constraint: "exactly" read as "at least".
check_user_constraint_exactly_as_at_least(user_entries, constraint) ==
    /\ "has_all" \in DOMAIN constraint =>
         \A k \in DOMAIN constraint.has_all :
            ~(label_count(user_entries, constraint.has_all[k]) < 1)
    /\ "at_least" \in DOMAIN constraint =>
         \A cat \in DOMAIN constraint.at_least :
            ~(label_count(user_entries, cat) < constraint.at_least[cat])
    /\ "exactly" \in DOMAIN constraint =>
         \A cat \in DOMAIN constraint.exactly :
            ~(label_count(user_entries, cat) < constraint.exactly[cat])

\* Mutation of check_user_constraint: "at_least" compared with <=.
check_user_constraint_strict_at_least(user_entries, constraint) ==
    /\ "has_all" \in DOMAIN constraint =>
         \A k \in DOMAIN constraint.has_all :
            ~(label_count(user_entries, constraint.has_all[k]) < 1)
    /\ "at_least" \in DOMAIN constraint =>
         \A cat \in DOMAIN constraint.at_least :
            ~(label_count(user_entries, cat) <= constraint.at_least[cat])
    /\ "exactly" \in DOMAIN constraint =>
         \A cat \in DOMAIN constraint.exactly :
            ~(label_count(user_entries, cat) # constraint.exactly[cat])

check_user_constraint(user_entries, constraint) ==
    /\ "has_all" \in DOMAIN constraint =>
         \A k \in DOMAIN constraint.has_all :
            ~(label_count(user_entries, constraint.has_all[k]) < 1)
    /\ "at_least" \in DOMAIN constraint =>
         \A cat \in DOMAIN constraint.at_least :
            ~(label_count(user_entries, cat) < constraint.at_least[cat])
    /\ "exactly" \in DOMAIN constraint =>
         \A cat \in DOMAIN constraint.exactly :
            ~(label_count(user_entries, cat) # constraint.exactly[cat])

\* Mutation of AsymmetricAppend: the elif is missing.
AsymmetricAppendFirstOnly(acc, pair, entries1, entries2, user_a_req, user_b_req) ==
    IF check_user_constraint(entries1, user_a_req)
       /\ check_user_constraint(entries2, user_b_req)
    THEN Append(acc, pair)
    ELSE acc

\* Mutation of AsymmetricAppend: the elif tests entries2 against both sides.
AsymmetricAppendElifTypo(acc, pair, entries1, entries2, user_a_req, user_b_req) ==
    IF check_user_constraint(entries1, user_a_req)
       /\ check_user_constraint(entries2, user_b_req)
    THEN Append(acc, pair)
    ELSE IF check_user_constraint(entries2, user_a_req)
            /\ check_user_constraint(entries2, user_b_req)
    THEN Append(acc, pair)
    ELSE acc

\* Mutation of AsymmetricAppend: "if" for "elif", so both appends may run.
AsymmetricAppendTwoIfs(acc, pair, entries1, entries2, user_a_req, user_b_req) ==
    LET first == IF check_user_constraint(entries1, user_a_req)
                    /\ check_user_constraint(entries2, user_b_req)
                 THEN Append(acc, pair)
                 ELSE acc
    IN  IF check_user_constraint(entries2, user_a_req)
           /\ check_user_constraint(entries1, user_b_req)
        THEN Append(first, pair)
        ELSE first

\* The if/elif of the asymmetric branch, on the result list acc: the pair
\* is appended by the first assignment that holds, once.
AsymmetricAppend(acc, pair, entries1, entries2, user_a_req, user_b_req) ==
    IF check_user_constraint(entries1, user_a_req)
       /\ check_user_constraint(entries2, user_b_req)
    THEN Append(acc, pair)
    ELSE IF check_user_constraint(entries2, user_a_req)
            /\ check_user_constraint(entries1, user_b_req)
    THEN Append(acc, pair)
    ELSE acc

(***************************************************************************)
(* The predicates of compute_ground_truth_pairs (generate_dataset.py).     *)
(***************************************************************************)
\* set(e["category"] for e in entries)
CategoriesOf(entries) == {entries[k].category : k \in DOMAIN entries}

\* (cats1 & target_cats) and (cats2 & target_cats)
LiteBothHaveAny(entries1, entries2, target_cats) ==
    /\ CategoriesOf(entries1) \cap target_cats # {}
    /\ CategoriesOf(entries2) \cap target_cats # {}

\* matches_a: all(c in cats for c in user_a_req.get("has_all", []))
matches_a(entries, user_a_req) ==
    "has_all" \in DOMAIN user_a_req =>
        \A k \in DOMAIN user_a_req.has_all :
            user_a_req.has_all[k] \in CategoriesOf(entries)

\* cat_counts.get(cat, 0) after the counting pass of matches_b.
cat_count(entries, cat) ==
    Cardinality({k \in DOMAIN entries : entries[k].category = cat})

\* matches_b: every (cat, count) of user_b_req.get("exactly", {}).
matches_b(entries, user_b_req) ==
    "exactly" \in DOMAIN user_b_req =>
        \A cat \in DOMAIN user_b_req.exactly :
            ~(cat_count(entries, cat) # user_b_req.exactly[cat])

LiteAsymmetric(entries1, entries2, user_a_req, user_b_req) ==
    \/ matches_a(entries1, user_a_req) /\ matches_b(entries2, user_b_req)
    \/ matches_a(entries2, user_a_req) /\ matches_b(entries1, user_b_req)

(***************************************************************************)
(* The arguments of a call.                                                *)
(***************************************************************************)
\* Keys of a store: ints in the production generator (generate_user_id),
\* str(user_id) in the lightweight one; a production store that comes from
\* input records or from JSON has string keys.
IntKeys == UserNums
StrKeys == {str(n) : n \in UserNums}

\* Timestamps as generate_timestamp of generate_oolong_pairs.py formats them.
Mar14 == [fmt |-> "mdy", mon |-> "Mar", day |-> 14, year |-> 2023]
Mar15 == [fmt |-> "mdy", mon |-> "Mar", day |-> 15, year |-> 2023]
Apr10 == [fmt |-> "mdy", mon |-> "Apr", day |-> 10, year |-> 2023]

\* Date bounds as the task catalog writes them, and a malformed one.
BoundIso == [fmt |-> "iso", mon |-> "03", day |-> 15, year |-> 2023]
BoundBad == [fmt |-> "dmy", mon |-> "03", day |-> 15, year |-> 2023]

\* A timestamp of the lightweight generator ('%Y-%m-%d %H:%M:%S').
LiteStamp == [fmt |-> "iso_hms", mon |-> "03", day |-> 15, year |-> 2023,
              seconds |-> 0]

\* Events whose date no branch reads.
EventsPlain ==
    {[label |-> l, timestamp |-> Mar15] : l \in {"NUM", "LOC", "ENTY"}}

\* Events for the date branch: the date category before, on and after the
\* bound day, and another category.
EventsDated ==
    {[label |-> "NUM", timestamp |-> Mar14],
     [label |-> "NUM", timestamp |-> Mar15],
     [label |-> "NUM", timestamp |-> Apr10],
     [label |-> "LOC", timestamp |-> Mar15]}

LiteEvents ==
    {[category |-> c, timestamp |-> LiteStamp] : c \in {"NUM", "LOC", "ENTY"}}

\* Mutation of Put: an event equal to one the user already has is not
\* appended.
PutUnlessPresent(s, k, e) ==
    IF k \in DOMAIN s
    THEN (IF e \in Range(s[k]) THEN s ELSE [s EXCEPT ![k] = Append(@, e)])
    ELSE (k :> <<e>>) @@ s

\* user_labels[user_id].append(event) on a defaultdict(list).
Put(s, k, e) ==
    IF k \in DOMAIN s THEN [s EXCEPT ![k] = Append(@, e)]
    ELSE (k :> <<e>>) @@ s

EmptyStore == [k \in {} |-> <<>>]

\* The stores that n appends build: every key has at least one event.
RECURSIVE StoresOf(_, _, _)
StoresOf(keys, events, n) ==
    IF n = 0 THEN {EmptyStore}
    ELSE LET prev == StoresOf(keys, events, n - 1)
         IN  prev \cup {Put(s, k, e) : s \in prev, k \in keys, e \in events}

AnyTasks ==
    {[type |-> "both_have_any", categories |-> cs] :
        cs \in {<<"NUM", "LOC">>, <<"NUM">>, <<"ENTY", "LOC">>, <<"ABBR">>}}

DateTasks ==
    {[type |-> "both_have_any_with_date", categories |-> <<"NUM", "LOC">>,
      date_constraint |-> [category |-> "NUM", before |-> BoundIso]],
     [type |-> "both_have_any_with_date", categories |-> <<"NUM", "LOC">>,
      date_constraint |-> [category |-> "NUM", after |-> BoundIso]],
     [type |-> "both_have_any_with_date", categories |-> <<"NUM", "LOC">>,
      date_constraint |-> [category |-> "NUM", after |-> Mar14]],
     [type |-> "both_have_any_with_date", categories |-> <<"NUM", "LOC">>,
      date_constraint |-> [category |-> "NUM", before |-> BoundBad]]}

NoClause == [k \in {} |-> 0]

AsymTasks ==
    {[type |-> "asymmetric", user_a |-> a, user_b |-> b] : <<a, b>> \in
       {<<[has_all |-> <<"NUM", "LOC">>], [exactly |-> [ENTY |-> 1]]>>,
        <<[at_least |-> [NUM |-> 2]], [has_all |-> <<"LOC", "ENTY">>]>>,
        <<[exactly |-> [NUM |-> 1]], [has_all |-> <<"LOC">>]>>,
        <<[has_all |-> <<"NUM">>, exactly |-> [LOC |-> 1]],
          [at_least |-> [ENTY |-> 1], exactly |-> [NUM |-> 0]]>>,
        <<NoClause, [exactly |-> [NUM |-> 2, LOC |-> 1]]>>,
        <<NoClause, NoClause>>}}

LiteAnyTasks ==
    {[criteria |-> [type |-> "both_have_any", categories |-> cs]] :
        cs \in {<<"ENTY", "LOC">>, <<"NUM">>}}

LiteAsymTasks ==
    {[criteria |-> [type |-> "asymmetric", user_a |-> a, user_b |-> b]] :
       <<a, b>> \in
       {<<[has_all |-> <<"ENTY", "LOC">>], [exactly |-> [ENTY |-> 1]]>>,
        <<[has_all |-> <<"NUM">>], [exactly |-> [NUM |-> 1]]>>}}

NoDate == <<>>

Locals ==
    /\ user_ids = <<>>
    /\ cutoff = NoDate
    /\ i = 0
    /\ j = 0
    /\ pairs = <<>>
    /\ pc = "call"

\* generate_dataset is not running.
GenIdle ==
    /\ target_tokens = 0
    /\ trec = <<>>
    /\ draws = <<>>
    /\ gen_entries = <<>>
    /\ current_tokens = 0
    /\ question_idx = 0
    /\ timestamp = <<>>
    /\ gpc = "idle"

\* No list is being split.
SplitIdle ==
    /\ questions_list = <<>>
    /\ num_batches = 0
    /\ batches = <<>>
    /\ batch_files = <<>>
    /\ spc = "idle"

\* find_user_pairs.py is not running.
PipeIdle ==
    /\ classified_data = <<>>
    /\ target_users = <<>>
    /\ found_pairs = <<>>
    /\ fpc = "idle"

\* None of the scripts is running.
ScriptsIdle == GenIdle /\ SplitIdle /\ PipeIdle

\* No metrics have been computed.
NoMetrics == [k \in {} |-> 0]

\* evaluate.main is not running.
EvalIdle ==
    /\ correct_pairs = <<>>
    /\ prediction_text = <<>>
    /\ ground_truth = {}
    /\ predicted = {}
    /\ metrics = NoMetrics
    /\ epc = "idle"

\* The first call of the enumerator is about to begin.
FirstCall ==
    /\ call_no = 1
    /\ first_result = [outcome |-> "none", value |-> <<>>]

Init ==
    /\ Locals
    /\ FirstCall
    /\ ScriptsIdle
    /\ EvalIdle
    /\ \/ /\ impl = "prod"
          /\ keyKind = "int"
          /\ user_labels \in StoresOf(IntKeys, EventsPlain, MaxEvents)
          /\ task \in AnyTasks \cup AsymTasks
       \/ /\ impl = "prod"
          /\ keyKind = "str"
          /\ user_labels \in StoresOf(StrKeys, EventsPlain, MaxEvents)
          /\ task \in AnyTasks
       \/ /\ impl = "prod"
          /\ keyKind = "int"
          /\ user_labels \in StoresOf(IntKeys, EventsDated, MaxEvents)
          /\ task \in DateTasks
       \/ /\ impl = "lite"
          /\ keyKind = "str"
          /\ user_labels \in StoresOf(StrKeys, LiteEvents, MaxEvents)
          /\ task \in LiteAnyTasks \cup LiteAsymTasks

(***************************************************************************)
(* compute_ground_truth.                                                   *)
(***************************************************************************)
\* Mutation of InnerStart: the inner loop runs over the whole of user_ids.
InnerStartWhole(k) == 1

\* The first index of the inner loop's slice user_ids[i+1:], for the outer
\* index k (1-based).
InnerStart(k) == k + 1

\* The first <<i, j>> the nested loops visit from outer index k on, among n
\* ids; <<n + 1, n + 1>> when both loops are exhausted.
RECURSIVE FirstFrom(_, _)
FirstFrom(k, n) ==
    IF k > n THEN <<n + 1, n + 1>>
    ELSE IF InnerStart(k) <= n THEN <<k, InnerStart(k)>>
    ELSE FirstFrom(k + 1, n)

\* The <<i, j>> the nested loops visit after <<k, l>>.
Following(k, l, n) ==
    IF l < n THEN <<k, l + 1>> ELSE FirstFrom(k + 1, n)

\* The asymmetric branch of compute_ground_truth as a function of its
\* arguments: the list the nested loops build from position pos on.
RECURSIVE AsymmetricPairsFrom(_, _, _, _, _, _)
AsymmetricPairsFrom(ids, labels, user_a_req, user_b_req, pos, acc) ==
    IF pos[1] > Len(ids) THEN acc
    ELSE LET uid1 == ids[pos[1]]
             uid2 == ids[pos[2]]
         IN  AsymmetricPairsFrom(ids, labels, user_a_req, user_b_req,
                 Following(pos[1], pos[2], Len(ids)),
                 AsymmetricAppend(acc, <<uid1, uid2>>, labels[uid1],
                                  labels[uid2], user_a_req, user_b_req))

AsymmetricPairs(kind, labels, user_a_req, user_b_req) ==
    LET ids == Sorted(kind, DOMAIN labels)
    IN  AsymmetricPairsFrom(ids, labels, user_a_req, user_b_req,
                            FirstFrom(1, Len(ids)), <<>>)

\* for i, uid1 in enumerate(user_ids): for uid2 in user_ids[i+1:]
MorePairs == i <= Len(user_ids)

NextPair ==
    LET nx == Following(i, j, Len(user_ids))
    IN  i' = nx[1] /\ j' = nx[2]

\* The key of date_constraint that selects the lambda.
BoundKind(date_constraint) ==
    IF "before" \in DOMAIN date_constraint THEN "before" ELSE "after"

BoundString(date_constraint) ==
    IF "before" \in DOMAIN date_constraint THEN date_constraint.before
    ELSE date_constraint.after

\* Mutation of Call: the result list is not created by the call (a list
\* that outlives the call), so pairs = [] is missing.
CallKeepingPairs ==
    /\ pc = "call"
    /\ impl = "prod"
    /\ user_ids' = Sorted(keyKind, DOMAIN user_labels)
    /\ pairs' = pairs
    /\ i' = FirstFrom(1, Len(user_ids'))[1]
    /\ j' = FirstFrom(1, Len(user_ids'))[2]
    /\ cutoff' = IF task.type = "both_have_any_with_date"
                 THEN parse_date(BoundString(task.date_constraint))
                 ELSE NoDate
    /\ pc' = IF cutoff' = ValueError THEN "raised" ELSE "loop"
    /\ UNCHANGED <<scriptVars, callVars, evalVars, impl, keyKind, user_labels,
                   task>>

\* The prologue: sorted(user_labels.keys()), pairs = [], and in the date
\* branch the parse of the bound, which may raise.
Call ==
    /\ pc = "call"
    /\ impl = "prod"
    /\ user_ids' = Sorted(keyKind, DOMAIN user_labels)
    /\ pairs' = <<>>
    /\ i' = FirstFrom(1, Len(user_ids'))[1]
    /\ j' = FirstFrom(1, Len(user_ids'))[2]
    /\ cutoff' = IF task.type = "both_have_any_with_date"
                 THEN parse_date(BoundString(task.date_constraint))
                 ELSE NoDate
    /\ pc' = IF cutoff' = ValueError THEN "raised" ELSE "loop"
    /\ UNCHANGED <<scriptVars, callVars, evalVars, impl, keyKind, user_labels,
                   task>>

BothHaveAnyStep ==
    /\ pc = "loop"
    /\ impl = "prod"
    /\ task.type = "both_have_any"
    /\ MorePairs
    /\ LET uid1 == user_ids[i]
           uid2 == user_ids[j]
       IN  pairs' = IF BothHaveAny(user_labels[uid1], user_labels[uid2],
                                   Range(task.categories))
                    THEN Append(pairs, <<uid1, uid2>>)
                    ELSE pairs
    /\ NextPair
    /\ UNCHANGED <<scriptVars, callVars, evalVars, impl, keyKind, user_labels,
                   task, user_ids, cutoff, pc>>

WithDateStep ==
    /\ pc = "loop"
    /\ impl = "prod"
    /\ task.type = "both_have_any_with_date"
    /\ MorePairs
    /\ LET uid1 == user_ids[i]
           uid2 == user_ids[j]
           r == BothHaveAnyWithDate(user_labels[uid1], user_labels[uid2],
                    Range(task.categories), task.date_constraint.category,
                    BoundKind(task.date_constraint), cutoff)
       IN  IF r = "ValueError"
           THEN pc' = "raised" /\ UNCHANGED <<pairs, i, j>>
           ELSE /\ pairs' = IF r = "True" THEN Append(pairs, <<uid1, uid2>>)
                           ELSE pairs
                /\ NextPair
                /\ pc' = pc
    /\ UNCHANGED <<scriptVars, callVars, evalVars, impl, keyKind, user_labels,
                   task, user_ids, cutoff>>

AsymmetricStep ==
    /\ pc = "loop"
    /\ impl = "prod"
    /\ task.type = "asymmetric"
    /\ MorePairs
    /\ LET uid1 == user_ids[i]
           uid2 == user_ids[j]
       IN  pairs' = AsymmetricAppend(pairs, <<uid1, uid2>>, user_labels[uid1],
                        user_labels[uid2], task.user_a, task.user_b)
    /\ NextPair
    /\ UNCHANGED <<scriptVars, callVars, evalVars, impl, keyKind, user_labels,
                   task, user_ids, cutoff, pc>>

\* Mutation of Return: the store is emptied before the list is returned.
ReturnClearing ==
    /\ pc = "loop"
    /\ impl = "prod"
    /\ ~MorePairs
    /\ pc' = "returned"
    /\ user_labels' = EmptyStore
    /\ UNCHANGED <<scriptVars, callVars, evalVars, impl, keyKind, task,
                   user_ids, cutoff, i, j, pairs>>

\* return pairs
Return ==
    /\ pc = "loop"
    /\ impl = "prod"
    /\ ~MorePairs
    /\ pc' = "returned"
    /\ UNCHANGED <<scriptVars, callVars, evalVars, impl, keyKind, user_labels,
                   task, user_ids, cutoff, i, j, pairs>>

(***************************************************************************)
(* compute_ground_truth_pairs.                                             *)
(***************************************************************************)
KeyError == <<"KeyError">>

\* datetime.strptime(s, "%Y-%m-%d"): a datetime with a time of day is the
\* tuple <<year, month, day, second of the day>>.
strptime_date(s) ==
    IF s.fmt = "iso" /\ s.mon \in DOMAIN MonthOfDigits
    THEN <<s.year, MonthOfDigits[s.mon], s.day, 0>>
    ELSE ValueError

\* datetime.strptime(s, "%Y-%m-%d %H:%M:%S")
strptime_stamp(s) ==
    IF s.fmt = "iso_hms" /\ s.mon \in DOMAIN MonthOfDigits
    THEN <<s.year, MonthOfDigits[s.mon], s.day, s.seconds>>
    ELSE ValueError

\* before_date = strptime(criteria["date_constraint"]["before"], ...): the
\* subscript raises KeyError when the constraint has no key "before".
before_date_of(date_constraint) ==
    IF "before" \in DOMAIN date_constraint
    THEN strptime_date(date_constraint.before)
    ELSE KeyError

\* Mutation of StampAtOrAfter: > for >=.
StampAfter(a, b) ==
    \/ DateLess(b, a)
    \/ a[1] = b[1] /\ a[2] = b[2] /\ a[3] = b[3] /\ a[4] > b[4]

\* ts >= before_date on two datetimes.
StampAtOrAfter(a, b) ==
    \/ DateLess(b, a)
    \/ a[1] = b[1] /\ a[2] = b[2] /\ a[3] = b[3] /\ a[4] >= b[4]

\* check_date_constraint: the events in list order, False at the first event
\* of the date category that is not before the bound; strptime may raise.
RECURSIVE check_date_constraint(_, _, _)
check_date_constraint(entries, date_cat, before_date) ==
    IF Len(entries) = 0 THEN "True"
    ELSE IF Head(entries).category = date_cat
    THEN LET ts == strptime_stamp(Head(entries).timestamp)
         IN  IF ts = ValueError THEN "ValueError"
             ELSE IF StampAtOrAfter(ts, before_date) THEN "False"
             ELSE check_date_constraint(Tail(entries), date_cat, before_date)
    ELSE check_date_constraint(Tail(entries), date_cat, before_date)

\* The body of the inner loop of the date branch: the category test with
\* its continue, then check_date_constraint of entries1 and of entries2.
LiteBothHaveAnyWithDate(entries1, entries2, target_cats, date_cat, before_date) ==
    IF ~LiteBothHaveAny(entries1, entries2, target_cats) THEN "False"
    ELSE LET r1 == check_date_constraint(entries1, date_cat, before_date)
         IN  IF r1 # "True" THEN r1
             ELSE check_date_constraint(entries2, date_cat, before_date)

\* sorted([int(uid) for uid in ground_truth.keys()]), pairs = [], and in the
\* date branch the read and the parse of the bound, which may raise.
LiteCall ==
    /\ pc = "call"
    /\ impl = "lite"
    /\ user_ids' = Sorted("int", {int(uid) : uid \in DOMAIN user_labels})
    /\ pairs' = <<>>
    /\ i' = FirstFrom(1, Len(user_ids'))[1]
    /\ j' = FirstFrom(1, Len(user_ids'))[2]
    /\ cutoff' = IF task.criteria.type = "both_have_any_with_date"
                 THEN before_date_of(task.criteria.date_constraint)
                 ELSE cutoff
    /\ pc' = IF cutoff' \in {KeyError, ValueError} THEN "raised" ELSE "loop"
    /\ UNCHANGED <<scriptVars, callVars, evalVars, impl, keyKind, user_labels,
                   task>>

LiteBothHaveAnyStep ==
    /\ pc = "loop"
    /\ impl = "lite"
    /\ task.criteria.type = "both_have_any"
    /\ MorePairs
    /\ LET uid1 == user_ids[i]
           uid2 == user_ids[j]
       IN  pairs' = IF LiteBothHaveAny(user_labels[str(uid1)],
                           user_labels[str(uid2)],
                           Range(task.criteria.categories))
                    THEN Append(pairs, <<uid1, uid2>>)
                    ELSE pairs
    /\ NextPair
    /\ UNCHANGED <<scriptVars, callVars, evalVars, impl, keyKind, user_labels,
                   task, user_ids, cutoff, pc>>

LiteAsymmetricStep ==
    /\ pc = "loop"
    /\ impl = "lite"
    /\ task.criteria.type = "asymmetric"
    /\ MorePairs
    /\ LET uid1 == user_ids[i]
           uid2 == user_ids[j]
       IN  pairs' = IF LiteAsymmetric(user_labels[str(uid1)],
                           user_labels[str(uid2)],
                           task.criteria.user_a, task.criteria.user_b)
                    THEN Append(pairs, <<uid1, uid2>>)
                    ELSE pairs
    /\ NextPair
    /\ UNCHANGED <<scriptVars, callVars, evalVars, impl, keyKind, user_labels,
                   task, user_ids, cutoff, pc>>

LiteWithDateStep ==
    /\ pc = "loop"
    /\ impl = "lite"
    /\ task.criteria.type = "both_have_any_with_date"
    /\ MorePairs
    /\ LET uid1 == user_ids[i]
           uid2 == user_ids[j]
           r == LiteBothHaveAnyWithDate(user_labels[str(uid1)],
                    user_labels[str(uid2)], Range(task.criteria.categories),
                    task.criteria.date_constraint.category, cutoff)
       IN  IF r = "ValueError"
           THEN pc' = "raised" /\ UNCHANGED <<pairs, i, j>>
           ELSE /\ pairs' = IF r = "True" THEN Append(pairs, <<uid1, uid2>>)
                           ELSE pairs
                /\ NextPair
                /\ pc' = pc
    /\ UNCHANGED <<scriptVars, callVars, evalVars, impl, keyKind, user_labels,
                   task, user_ids, cutoff>>

\* return pairs
LiteReturn ==
    /\ pc = "loop"
    /\ impl = "lite"
    /\ ~MorePairs
    /\ pc' = "returned"
    /\ UNCHANGED <<scriptVars, callVars, evalVars, impl, keyKind, user_labels,
                   task, user_ids, cutoff, i, j, pairs>>

Next ==
    \/ Call
    \/ BothHaveAnyStep
    \/ WithDateStep
    \/ AsymmetricStep
    \/ Return
    \/ LiteCall
    \/ LiteBothHaveAnyStep
    \/ LiteAsymmetricStep
    \/ LiteReturn

Spec == Init /\ [][Next]_vars

(***************************************************************************)
(* Properties.                                                             *)
(***************************************************************************)
\* The dict whose "type" selects the branch.
Criteria == IF impl = "lite" THEN task.criteria ELSE task

\* The category of an event ("category" in the lightweight store).
EventCategory(e) == IF impl = "lite" THEN e.category ELSE e.label

\* The key of the store for an id of the result list.
KeyOfId(id) == IF impl = "lite" THEN str(id) ELSE id

\* The unordered pairs of users in the result list.
EmittedPairs ==
    {{KeyOfId(pairs[k][1]), KeyOfId(pairs[k][2])} : k \in DOMAIN pairs}

\* The unordered pairs of distinct users of the store.
UserPairs == {P \in SUBSET DOMAIN user_labels : Cardinality(P) = 2}

\* u has at least one event whose category is in C.
HasCategoryIn(u, C) ==
    \E k \in DOMAIN user_labels[u] :
        EventCategory(user_labels[u][k]) \in C

\* C1: when a both_have_any call returns, the pairs of the result are exactly
\* the pairs of distinct users that both have an event whose category is in
\* the task's categories.
C1_BothHaveAnyExact ==
    (pc = "returned" /\ Criteria.type = "both_have_any") =>
        EmittedPairs =
            {P \in UserPairs :
                \A u \in P : HasCategoryIn(u, Range(Criteria.categories))}

\* A returned both_have_any call on three users of which one has no event of
\* the categories: one pair.
C1_Witness ==
    /\ pc = "returned"
    /\ impl = "prod"
    /\ task.type = "both_have_any"
    /\ Cardinality(DOMAIN user_labels) = 3
    /\ Len(pairs) = 1
    /\ \E u \in DOMAIN user_labels :
          ~HasCategoryIn(u, Range(task.categories))

\* The calendar day of a date string, as a number that orders the days.
CalendarDay(ts) ==
    ts.year * 10000
    + (IF ts.fmt = "mdy" THEN MonthOfAbbr[ts.mon] ELSE MonthOfDigits[ts.mon])
      * 100
    + ts.day

\* The days of the events of category cat of user u.
DaysOf(u, cat) ==
    {CalendarDay(user_labels[u][k].timestamp) :
        k \in {n \in DOMAIN user_labels[u] : user_labels[u][n].label = cat}}

DateTaskReturned ==
    pc = "returned" /\ impl = "prod" /\ task.type = "both_have_any_with_date"

TaskKind == IF "before" \in DOMAIN task.date_constraint THEN "before"
            ELSE "after"

TaskBoundDay == CalendarDay(task.date_constraint[TaskKind])

\* Every event of the date category of u is strictly on the task's side of
\* the bound day.
AllDatesWithin(u) ==
    \A d \in DaysOf(u, task.date_constraint.category) :
        IF TaskKind = "before" THEN d < TaskBoundDay ELSE d > TaskBoundDay

\* C2: when a both_have_any_with_date call returns, a pair is in the result
\* iff both users have an event of the categories and every event of the
\* date category of either user is strictly before (kind before) or strictly
\* after (kind after) the bound; no user of a returned pair has an event of
\* the date category on the bound day.
C2_DateBoundStrict ==
    DateTaskReturned =>
        /\ EmittedPairs =
              {P \in UserPairs :
                  /\ \A u \in P : HasCategoryIn(u, Range(task.categories))
                  /\ \A u \in P : AllDatesWithin(u)}
        /\ \A P \in EmittedPairs : \A u \in P :
              TaskBoundDay \notin DaysOf(u, task.date_constraint.category)

\* A returned date call with a pair in the result and a pair left out for an
\* event of the date category on the bound day.
C2_Witness ==
    /\ DateTaskReturned
    /\ pairs # <<>>
    /\ \E P \in UserPairs \ EmittedPairs :
          /\ \A u \in P : HasCategoryIn(u, Range(task.categories))
          /\ \E u \in P :
                TaskBoundDay \in DaysOf(u, task.date_constraint.category)
          /\ \A u \in P :
                \A d \in DaysOf(u, task.date_constraint.category) :
                    IF TaskKind = "before" THEN d <= TaskBoundDay
                    ELSE d >= TaskBoundDay

\* The number of events of category c in a list of events.
CountOf(events, c) ==
    Len(SelectSeq(events, LAMBDA e : EventCategory(e) = c))

\* A requirement bundle holds for a list of events: every clause present.
Satisfies(events, bundle) ==
    /\ "has_all" \in DOMAIN bundle =>
          \A c \in Range(bundle.has_all) : CountOf(events, c) >= 1
    /\ "at_least" \in DOMAIN bundle =>
          \A c \in DOMAIN bundle.at_least :
              CountOf(events, c) >= bundle.at_least[c]
    /\ "exactly" \in DOMAIN bundle =>
          \A c \in DOMAIN bundle.exactly :
              CountOf(events, c) = bundle.exactly[c]

AsymReturned == pc = "returned" /\ impl = "prod" /\ task.type = "asymmetric"

\* C3: when an asymmetric call returns, a pair is in the result iff one of
\* its users satisfies user_a and the other satisfies user_b.
C3_AsymmetricEitherAssignment ==
    AsymReturned =>
        EmittedPairs =
            {P \in UserPairs :
                \E x \in P : \E y \in P \ {x} :
                    /\ Satisfies(user_labels[x], task.user_a)
                    /\ Satisfies(user_labels[y], task.user_b)}

\* A returned asymmetric call with a pair that only the second assignment
\* (uid2 as user_a, uid1 as user_b) admits.
C3_Witness ==
    /\ AsymReturned
    /\ \E k \in DOMAIN pairs :
          LET e1 == user_labels[pairs[k][1]]
              e2 == user_labels[pairs[k][2]]
          IN  /\ ~(Satisfies(e1, task.user_a) /\ Satisfies(e2, task.user_b))
              /\ Satisfies(e2, task.user_a)
              /\ Satisfies(e1, task.user_b)

\* C4: check_user_constraint holds for a user's events and a bundle iff every
\* clause present in the bundle holds, with the count of an absent category
\* 0; a bundle without clauses holds for every user.
C4_BundleIsConjunction ==
    (impl = "prod" /\ task.type = "asymmetric") =>
        \A u \in DOMAIN user_labels :
            /\ \A r \in {task.user_a, task.user_b} :
                  check_user_constraint(user_labels[u], r)
                      = Satisfies(user_labels[u], r)
            /\ check_user_constraint(user_labels[u], NoClause)
            /\ \A c \in {"NUM", "LOC", "ENTY", "ABBR"} :
                  label_count(user_labels[u], c) = CountOf(user_labels[u], c)

\* A returned asymmetric call whose user_a has no clause and whose user_b
\* one user satisfies and another does not.
C4_Witness ==
    /\ AsymReturned
    /\ task.user_a = NoClause
    /\ task.user_b # NoClause
    /\ \E u \in DOMAIN user_labels : \E v \in DOMAIN user_labels :
          /\ check_user_constraint(user_labels[u], task.user_b)
          /\ ~check_user_constraint(user_labels[v], task.user_b)
          /\ CountOf(user_labels[v], "NUM") = 0

ExactlyOneNum == [exactly |-> [NUM |-> 1]]

\* The task has the side exactly {NUM: 1}, in either enumerator.
HasExactlyOneNumSide ==
    /\ Criteria.type = "asymmetric"
    /\ \/ impl = "prod" /\ ExactlyOneNum \in {task.user_a, task.user_b}
       \/ impl = "lite" /\ task.criteria.user_b = ExactlyOneNum

\* The verdict of the enumerator's check on the side exactly {NUM: 1}.
AcceptsExactlyOneNum(u) ==
    IF impl = "lite" THEN matches_b(user_labels[u], ExactlyOneNum)
    ELSE check_user_constraint(user_labels[u], ExactlyOneNum)

\* C5: exactly {NUM: 1} accepts a user iff the user has precisely one NUM
\* event: 0 and 2 or more are rejected, whatever the other events.
C5_ExactlyIsExact ==
    HasExactlyOneNumSide =>
        \A u \in DOMAIN user_labels :
            LET n == CountOf(user_labels[u], "NUM")
            IN  /\ n = 0 => ~AcceptsExactlyOneNum(u)
                /\ n >= 2 => ~AcceptsExactlyOneNum(u)
                /\ n = 1 => AcceptsExactlyOneNum(u)

\* A returned call with the side exactly {NUM: 1} on a store with a user of
\* 0, a user of 1 and a user of 2 NUM events.
C5_Witness ==
    /\ pc = "returned"
    /\ HasExactlyOneNumSide
    /\ \A n \in 0..2 : \E u \in DOMAIN user_labels :
          CountOf(user_labels[u], "NUM") = n

DateTaskRunning ==
    /\ pc \in {"loop", "returned"}
    /\ impl = "prod"
    /\ task.type = "both_have_any_with_date"

\* C6: a user without an event of the date category passes the date check
\* for every bound and both kinds; when the call returns, a pair with such a
\* user is left out only if a user of the pair has no event of the
\* categories or the other user has an event of the date category that is
\* not strictly on the task's side of the bound.
C6_DateVacuity ==
    DateTaskRunning =>
        \A u \in DOMAIN user_labels :
            DaysOf(u, task.date_constraint.category) = {} =>
                /\ \A kind \in {"before", "after"} :
                   \A b \in {BoundIso, Mar14, Mar15, Apr10} :
                      user_passes_date(user_labels[u],
                          task.date_constraint.category, kind, parse_date(b))
                          = "True"
                /\ pc = "returned" =>
                      \A v \in DOMAIN user_labels \ {u} :
                          {u, v} \notin EmittedPairs =>
                              \/ \E w \in {u, v} :
                                    ~HasCategoryIn(w, Range(task.categories))
                              \/ ~AllDatesWithin(v)

\* A returned date call where a user without an event of the date category
\* is in a returned pair and in a pair left out for the other user's dates.
C6_Witness ==
    /\ DateTaskReturned
    /\ \E u \in DOMAIN user_labels :
          /\ DaysOf(u, task.date_constraint.category) = {}
          /\ \E v \in DOMAIN user_labels : {u, v} \in EmittedPairs
          /\ \E v \in DOMAIN user_labels \ {u} :
                /\ {u, v} \notin EmittedPairs
                /\ ~AllDatesWithin(v)

\* C7: at every point of the enumeration the result list holds each
\* unordered pair of users at most once.
C7_NoDuplicatePairs ==
    \A k \in DOMAIN pairs : \A l \in DOMAIN pairs :
        k # l => {pairs[k][1], pairs[k][2]} # {pairs[l][1], pairs[l][2]}

\* A returned asymmetric call with two different sides and a pair that both
\* role assignments admit.
C7_Witness ==
    /\ AsymReturned
    /\ task.user_a # task.user_b
    /\ \E k \in DOMAIN pairs :
          LET e1 == user_labels[pairs[k][1]]
              e2 == user_labels[pairs[k][2]]
          IN  /\ Satisfies(e1, task.user_a) /\ Satisfies(e2, task.user_b)
              /\ Satisfies(e2, task.user_a) /\ Satisfies(e1, task.user_b)

\* The numeric value of an id of the result list.
NumericId(id) == IF impl = "prod" /\ keyKind = "str" THEN int(id) ELSE id

\* C8: every pair of the result list has the numerically smaller id first.
C8_LowerIdFirst ==
    \A k \in DOMAIN pairs : NumericId(pairs[k][1]) < NumericId(pairs[k][2])

\* C9: every prefix of the result list is in ascending order of the first
\* id and then of the second id, by numeric value.
C9_SortedByNumericValue ==
    \A k \in DOMAIN pairs : \A l \in DOMAIN pairs :
        k < l =>
            \/ NumericId(pairs[k][1]) < NumericId(pairs[l][1])
            \/ /\ NumericId(pairs[k][1]) = NumericId(pairs[l][1])
               /\ NumericId(pairs[k][2]) < NumericId(pairs[l][2])

\* The loop body's decision for the users u, v in this order.
Decision(u, v) ==
    IF task.type = "both_have_any"
    THEN BothHaveAny(user_labels[u], user_labels[v], Range(task.categories))
    ELSE IF task.type = "both_have_any_with_date"
    THEN BothHaveAnyWithDate(user_labels[u], user_labels[v],
             Range(task.categories), task.date_constraint.category,
             BoundKind(task.date_constraint), cutoff) = "True"
    ELSE AsymmetricAppend(<<>>, <<u, v>>, user_labels[u], user_labels[v],
                          task.user_a, task.user_b) # <<>>

\* C10: the decision for two users is the same in either order, for every
\* task type; a returned asymmetric call has the result list of the task
\* with user_a and user_b exchanged.
C10_Symmetry ==
    (impl = "prod" /\ pc \in {"loop", "returned"}) =>
        /\ \A u \in DOMAIN user_labels : \A v \in DOMAIN user_labels :
              Decision(u, v) = Decision(v, u)
        /\ AsymReturned =>
              pairs = AsymmetricPairs(keyKind, user_labels,
                                      task.user_b, task.user_a)

\* A returned asymmetric call with two different sides, two pairs in the
\* result, one admitted by the first assignment only and one by the second
\* only.
C10_Witness ==
    /\ AsymReturned
    /\ task.user_a # task.user_b
    /\ \E k \in DOMAIN pairs : \E l \in DOMAIN pairs :
          LET a1 == user_labels[pairs[k][1]]
              a2 == user_labels[pairs[k][2]]
              b1 == user_labels[pairs[l][1]]
              b2 == user_labels[pairs[l][2]]
          IN  /\ Satisfies(a1, task.user_a) /\ Satisfies(a2, task.user_b)
              /\ ~(Satisfies(a2, task.user_a) /\ Satisfies(a1, task.user_b))
              /\ Satisfies(b2, task.user_a) /\ Satisfies(b1, task.user_b)
              /\ ~(Satisfies(b1, task.user_a) /\ Satisfies(b2, task.user_b))

\* The store has no user or a single user.
FewUsers == Cardinality(DOMAIN user_labels) <= 1

\* The bound of a date task is a date.
BoundParses ==
    Criteria.type = "both_have_any_with_date"
        => parse_date(BoundString(Criteria.date_constraint)) # ValueError

\* C20: on a store with no user or a single user, a call with a well-formed
\* task of any type never raises, never appends a pair and has no pair left
\* to visit once the prologue has run: it returns the empty list.
C20_FewUsersEmptyList ==
    (FewUsers /\ BoundParses /\ pc # "call")
        => /\ pc \in {"loop", "returned"}
           /\ pairs = <<>>
           /\ ~MorePairs

\* A returned call on a single user who has an event of the categories of a
\* both_have_any task.
C20_Witness ==
    /\ pc = "returned"
    /\ Cardinality(DOMAIN user_labels) = 1
    /\ Criteria.type = "both_have_any"
    /\ \A u \in DOMAIN user_labels :
          HasCategoryIn(u, Range(Criteria.categories))
    /\ pairs = <<>>

(***************************************************************************)
(* compute_ground_truth called twice on the same arguments.                *)
(***************************************************************************)
\* One task of each type, and the date tasks of every bound.
RerunTasks ==
    DateTasks
    \cup {[type |-> "both_have_any", categories |-> <<"NUM">>],
          [type |-> "asymmetric", user_a |-> [exactly |-> [NUM |-> 1]],
           user_b |-> [has_all |-> <<"LOC">>]]}

InitRerun ==
    /\ Locals
    /\ FirstCall
    /\ ScriptsIdle
    /\ EvalIdle
    /\ impl = "prod"
    /\ keyKind = "int"
    /\ user_labels \in StoresOf(IntKeys, EventsDated, MaxEvents)
    /\ task \in RerunTasks

\* The caller keeps the outcome of the first call and calls again with the
\* same store and task.
CallAgain ==
    /\ call_no = 1
    /\ pc \in {"returned", "raised"}
    /\ first_result' = IF pc = "returned"
                       THEN [outcome |-> "returned", value |-> pairs]
                       ELSE [outcome |-> "raised", value |-> <<>>]
    /\ call_no' = 2
    /\ pc' = "call"
    /\ UNCHANGED <<scriptVars, evalVars, impl, keyKind, user_labels, task,
                   user_ids, cutoff, i, j, pairs>>

NextRerun ==
    \/ Call
    \/ BothHaveAnyStep
    \/ WithDateStep
    \/ AsymmetricStep
    \/ Return
    \/ CallAgain

SpecRerun == InitRerun /\ [][NextRerun]_vars

\* C18: the second call on the same store and task ends as the first did:
\* it returns the same list, pair by pair in the same order, or raises if
\* the first raised.
C18_SameResultTwice ==
    call_no = 2 =>
        /\ pc = "returned" =>
              /\ first_result.outcome = "returned"
              /\ pairs = first_result.value
        /\ pc = "raised" => first_result.outcome = "raised"

\* Both calls returned, with at least two pairs.
C18_Witness ==
    /\ call_no = 2
    /\ pc = "returned"
    /\ Len(pairs) >= 2

\* C19: no step of a call changes the store (its keys and the sequence of
\* events of each user) or the task, a call starts from an empty list of
\* its own, and the list the first call returned is not changed by the
\* second.
C19_InputsUnchanged ==
    [][/\ user_labels' = user_labels
       /\ task' = task
       /\ pc = "call" => pairs' = <<>>
       /\ call_no = 2 => first_result' = first_result]_vars

\* Both calls returned on a date task and a store of three users, with a
\* pair in the list.
C19_Witness ==
    /\ call_no = 2
    /\ pc = "returned"
    /\ task.type = "both_have_any_with_date"
    /\ Cardinality(DOMAIN user_labels) = 3
    /\ pairs # <<>>

(***************************************************************************)
(* compute_ground_truth on arguments the data model rules out: categories  *)
(* outside the six coarse labels, and timestamps that are not dates.       *)
(***************************************************************************)
\* The keys of COARSE_LABELS.
COARSE_LABELS == {"ABBR", "ENTY", "DESC", "HUM", "LOC", "NUM"}

\* Events of a known category and of a category outside COARSE_LABELS.
EventsUnknown ==
    {[label |-> l, timestamp |-> Mar15] : l \in {"NUM", "SPORT"}}

\* Tasks naming the category SPORT, and one that does not (for stores that
\* hold a SPORT event).
UnknownTasks ==
    {[type |-> "both_have_any", categories |-> <<"NUM", "SPORT">>],
     [type |-> "both_have_any", categories |-> <<"NUM">>],
     [type |-> "asymmetric", user_a |-> [exactly |-> [SPORT |-> 0]],
      user_b |-> [has_all |-> <<"NUM">>]]}

\* Events whose timestamp is a date and events whose timestamp is the
\* string '15/03/2023', of the date category and of another category.
EventsMalformed ==
    {[label |-> "NUM", timestamp |-> Mar14],
     [label |-> "NUM", timestamp |-> Apr10],
     [label |-> "NUM", timestamp |-> BoundBad],
     [label |-> "LOC", timestamp |-> BoundBad]}

MalformedTasks ==
    {[type |-> "both_have_any_with_date", categories |-> <<"NUM", "LOC">>,
      date_constraint |-> [category |-> "NUM", before |-> BoundIso]],
     [type |-> "both_have_any_with_date", categories |-> <<"NUM">>,
      date_constraint |-> [category |-> "NUM", after |-> Mar14]],
     [type |-> "both_have_any_with_date", categories |-> <<"NUM", "LOC">>,
      date_constraint |-> [category |-> "NUM", before |-> BoundBad]]}

InitInvalid ==
    /\ Locals
    /\ FirstCall
    /\ ScriptsIdle
    /\ EvalIdle
    /\ impl = "prod"
    /\ keyKind = "int"
    /\ \/ /\ user_labels \in StoresOf(IntKeys, EventsUnknown, MaxEvents)
          /\ task \in UnknownTasks
       \/ /\ user_labels \in StoresOf(IntKeys, EventsMalformed, MaxEvents)
          /\ task \in MalformedTasks

NextInvalid ==
    \/ Call
    \/ BothHaveAnyStep
    \/ WithDateStep
    \/ AsymmetricStep
    \/ Return

SpecInvalid == InitInvalid /\ [][NextInvalid]_vars

\* The categories a constraint bundle names.
ClauseCategories(c) ==
    (IF "has_all" \in DOMAIN c THEN Range(c.has_all) ELSE {})
    \cup (IF "at_least" \in DOMAIN c THEN DOMAIN c.at_least ELSE {})
    \cup (IF "exactly" \in DOMAIN c THEN DOMAIN c.exactly ELSE {})

\* The categories the task names.
TaskCategories ==
    IF task.type = "asymmetric"
    THEN ClauseCategories(task.user_a) \cup ClauseCategories(task.user_b)
    ELSE IF task.type = "both_have_any_with_date"
    THEN Range(task.categories) \cup {task.date_constraint.category}
    ELSE Range(task.categories)

\* The categories of the events of the store.
StoreCategories ==
    UNION {{user_labels[u][k].label : k \in DOMAIN user_labels[u]} :
              u \in DOMAIN user_labels}

\* C11: a call of compute_ground_truth whose task or store names a category
\* outside the six coarse labels never returns a pair list.
C11_UnknownCategoryRejected ==
    (impl = "prod" /\ ~(TaskCategories \cup StoreCategories
                          \subseteq COARSE_LABELS))
        => pc # "returned"

\* d is a timestamp or bound that parse_date rejects.
Malformed(d) == parse_date(d) = ValueError

\* The store holds an event whose timestamp parse_date rejects.
MalformedInStore ==
    \E u \in DOMAIN user_labels : \E k \in DOMAIN user_labels[u] :
        Malformed(user_labels[u][k].timestamp)

\* C12: a both_have_any_with_date call whose bound, or the timestamp of any
\* event of the store, is malformed never returns a pair list.
C12_MalformedDateRaises ==
    (/\ impl = "prod"
     /\ task.type = "both_have_any_with_date"
     /\ Malformed(BoundString(task.date_constraint)) \/ MalformedInStore)
        => pc # "returned"

(***************************************************************************)
(* evaluate.py: parse_pairs.                                               *)
(*                                                                         *)
(* A text is a sequence of characters (one-character strings).             *)
(***************************************************************************)
\* The value of a decimal digit character.
DigitValue ==
    ("0" :> 0) @@ ("1" :> 1) @@ ("2" :> 2) @@ ("3" :> 3) @@ ("4" :> 4)
    @@ ("5" :> 5) @@ ("6" :> 6) @@ ("7" :> 7) @@ ("8" :> 8) @@ ("9" :> 9)

\* \d and \s of the pattern.
IsDigit(c) == c \in DOMAIN DigitValue
IsSpace(c) == c \in {" ", "\n"}

\* The end of the longest run of white space (\s*) from position p on:
\* the position of the first character that is not white space.
RECURSIVE SkipSpaces(_, _)
SkipSpaces(text, p) ==
    IF p <= Len(text) /\ IsSpace(text[p]) THEN SkipSpaces(text, p + 1) ELSE p

\* The end of the longest run of digits from position p on.
RECURSIVE SkipDigits(_, _)
SkipDigits(text, p) ==
    IF p <= Len(text) /\ IsDigit(text[p]) THEN SkipDigits(text, p + 1) ELSE p

\* text[p] exists and is the character c.
At(text, p, c) == p <= Len(text) /\ text[p] = c

NoMatch == [end |-> 0, group1 |-> <<>>, group2 |-> <<>>]

\* The match of \(?\s*(\d+)\s*,\s*(\d+)\s*\)? starting at position p, if
\* any: the position after the match and the two groups.  Every quantifier
\* is greedy, and giving characters back never turns a failure into a
\* match: after fewer digits or spaces the next character is a digit or a
\* space, not what the pattern asks for, and without the optional '(' the
\* match would have to start with a digit or a space.
MatchAt(text, p) ==
    LET a == SkipSpaces(text, IF At(text, p, "(") THEN p + 1 ELSE p)
        b == SkipDigits(text, a)
        c == SkipSpaces(text, b)
        d == SkipSpaces(text, c + 1)
        e == SkipDigits(text, d)
        f == SkipSpaces(text, e)
    IN  IF b > a /\ At(text, c, ",") /\ e > d
        THEN [end |-> IF At(text, f, ")") THEN f + 1 ELSE f,
              group1 |-> SubSeq(text, a, b - 1),
              group2 |-> SubSeq(text, d, e - 1)]
        ELSE NoMatch

\* int() of a string of digits.
RECURSIVE IntOfDigits(_)
IntOfDigits(s) ==
    IF Len(s) = 0 THEN 0
    ELSE 10 * IntOfDigits(SubSeq(s, 1, Len(s) - 1)) + DigitValue[s[Len(s)]]

min(a, b) == IF a <= b THEN a ELSE b
max(a, b) == IF a >= b THEN a ELSE b

\* Mutation of NormalPair: the pair is added as it was written.
RawPair(id1, id2) == <<id1, id2>>

\* pair = (min(id1, id2), max(id1, id2))
NormalPair(id1, id2) == <<min(id1, id2), max(id1, id2)>>

\* for match in re.finditer(pattern, text): the matches from position p on,
\* left to right and not overlapping, added to the set acc.
RECURSIVE ParsePairsFrom(_, _, _)
ParsePairsFrom(text, p, acc) ==
    IF p > Len(text) THEN acc
    ELSE LET match == MatchAt(text, p)
         IN  IF match.end = 0 THEN ParsePairsFrom(text, p + 1, acc)
             ELSE ParsePairsFrom(text, match.end,
                      acc \cup {NormalPair(IntOfDigits(match.group1),
                                           IntOfDigits(match.group2))})

parse_pairs(text) == ParsePairsFrom(text, 1, {})

(***************************************************************************)
(* evaluate.py: compute_f1.                                                *)
(*                                                                         *)
(* A metric is the exact rational the division yields, in lowest terms:    *)
(* <<numerator, denominator>>.                                             *)
(***************************************************************************)
\* The Python type of the ids of the reference pairs: the production
\* enumerator returns the keys of its store as they are, the lightweight
\* one converts them with int(), and hand-written data sets hold numbers.
IdKind == IF impl = "prod" THEN keyKind ELSE "int"

\* predicted & ground_truth.  parse_pairs returns tuples of int, and a
\* tuple of int never equals a tuple of str.
Common(predicted_set, truth_set) ==
    IF IdKind = "int" THEN predicted_set \cap truth_set ELSE {}

RECURSIVE Gcd(_, _)
Gcd(a, b) == IF b = 0 THEN a ELSE Gcd(b, a % b)

\* n / d for n >= 0, d > 0.
Ratio(n, d) == <<n \div Gcd(n, d), d \div Gcd(n, d)>>

\* x * y, x + y and x / y on metrics (y # 0 in x / y).
Times(x, y) == Ratio(x[1] * y[1], x[2] * y[2])
Plus(x, y) == Ratio(x[1] * y[2] + y[1] * x[2], x[2] * y[2])
Over(x, y) == Ratio(x[1] * y[2], x[2] * y[1])

\* The literals 0.0, 1.0 and 2.
Zero == Ratio(0, 1)
One == Ratio(1, 1)
Two == Ratio(2, 1)

\* Mutation of compute_f1: the rule for two empty sets is missing, so an
\* empty predicted set scores 0.0 whatever the ground truth.
compute_f1_without_both_empty(predicted_set, truth_set) ==
    IF Cardinality(predicted_set) = 0 \/ Cardinality(truth_set) = 0
    THEN [precision |-> Zero, recall |-> Zero, f1 |-> Zero]
    ELSE LET true_positives == Cardinality(Common(predicted_set, truth_set))
             precision == Ratio(true_positives, Cardinality(predicted_set))
             recall == Ratio(true_positives, Cardinality(truth_set))
             f1 == IF Plus(precision, recall) = Zero THEN Zero
                   ELSE Over(Times(Times(Two, precision), recall),
                             Plus(precision, recall))
         IN  [precision |-> precision, recall |-> recall, f1 |-> f1,
              true_positives |-> true_positives,
              predicted_count |-> Cardinality(predicted_set),
              ground_truth_count |-> Cardinality(truth_set)]

\* Mutation of compute_f1: precision and recall divide by the size of the
\* other set.
compute_f1_swapped(predicted_set, truth_set) ==
    IF Cardinality(predicted_set) = 0 /\ Cardinality(truth_set) = 0
    THEN [precision |-> One, recall |-> One, f1 |-> One]
    ELSE IF Cardinality(predicted_set) = 0 \/ Cardinality(truth_set) = 0
    THEN [precision |-> Zero, recall |-> Zero, f1 |-> Zero]
    ELSE LET true_positives == Cardinality(Common(predicted_set, truth_set))
             precision == Ratio(true_positives, Cardinality(truth_set))
             recall == Ratio(true_positives, Cardinality(predicted_set))
             f1 == IF Plus(precision, recall) = Zero THEN Zero
                   ELSE Over(Times(Times(Two, precision), recall),
                             Plus(precision, recall))
         IN  [precision |-> precision, recall |-> recall, f1 |-> f1,
              true_positives |-> true_positives,
              predicted_count |-> Cardinality(predicted_set),
              ground_truth_count |-> Cardinality(truth_set)]

\* compute_f1: the three early returns carry the three metrics only.
compute_f1(predicted_set, truth_set) ==
    IF Cardinality(predicted_set) = 0 /\ Cardinality(truth_set) = 0
    THEN [precision |-> One, recall |-> One, f1 |-> One]
    ELSE IF Cardinality(predicted_set) = 0
    THEN [precision |-> Zero, recall |-> Zero, f1 |-> Zero]
    ELSE IF Cardinality(truth_set) = 0
    THEN [precision |-> Zero, recall |-> Zero, f1 |-> Zero]
    ELSE LET true_positives == Cardinality(Common(predicted_set, truth_set))
             precision == Ratio(true_positives, Cardinality(predicted_set))
             recall == Ratio(true_positives, Cardinality(truth_set))
             f1 == IF Plus(precision, recall) = Zero THEN Zero
                   ELSE Over(Times(Times(Two, precision), recall),
                             Plus(precision, recall))
         IN  [precision |-> precision, recall |-> recall, f1 |-> f1,
              true_positives |-> true_positives,
              predicted_count |-> Cardinality(predicted_set),
              ground_truth_count |-> Cardinality(truth_set)]

(***************************************************************************)
(* evaluate.py: main.                                                      *)
(***************************************************************************)
\* ground_truth = set(tuple(p) for p in data["correct_pairs"])
EvalLoad ==
    /\ epc = "load"
    /\ ground_truth' =
          {<<correct_pairs[k][1], correct_pairs[k][2]>> :
              k \in DOMAIN correct_pairs}
    /\ epc' = "parse"
    /\ UNCHANGED <<scriptVars, enumVars, callVars, correct_pairs,
                   prediction_text, predicted, metrics>>

\* predicted = parse_pairs(prediction_text)
EvalParse ==
    /\ epc = "parse"
    /\ predicted' = parse_pairs(prediction_text)
    /\ epc' = "score"
    /\ UNCHANGED <<scriptVars, enumVars, callVars, correct_pairs,
                   prediction_text, ground_truth, metrics>>

\* metrics = compute_f1(predicted, ground_truth)
EvalScore ==
    /\ epc = "score"
    /\ metrics' = compute_f1(predicted, ground_truth)
    /\ epc' = "report"
    /\ UNCHANGED <<scriptVars, enumVars, callVars, correct_pairs,
                   prediction_text, ground_truth, predicted>>

\* The keys of metrics the six prints read, in the order they are read.
ReportedKeys ==
    <<"ground_truth_count", "predicted_count", "true_positives", "precision",
      "recall", "f1">>

\* The prints of the metrics and of the examples, and return metrics;
\* metrics[key] of a key the dict lacks raises KeyError.
EvalReport ==
    /\ epc = "report"
    /\ epc' = IF Range(ReportedKeys) \subseteq DOMAIN metrics
              THEN "reported" ELSE "raised"
    /\ UNCHANGED <<scriptVars, enumVars, callVars, correct_pairs,
                   prediction_text, ground_truth, predicted, metrics>>

(***************************************************************************)
(* Arguments of evaluate.main.                                             *)
(***************************************************************************)
\* The most pieces a candidate answer is put together from.
MaxChunks == 3

\* '(1, 2)\n': a pair as find_user_pairs.py writes it
PairLine == <<"(", "1", ",", " ", "2", ")", "\n">>

\* '(2,1)': the same pair, higher id first
PairReversed == <<"(", "2", ",", "1", ")">>

\* '1,2': without parentheses
PairBare == <<"1", ",", "2">>

\* '( 1 , 2 )': with white space
PairSpaced == <<"(", " ", "1", " ", ",", " ", "2", " ", ")">>

\* '(3, 4)': another pair
OtherPair == <<"(", "3", ",", " ", "4", ")">>

\* ' and ': prose
ProseAnd == <<" ", "a", "n", "d", " ">>

\* '12': digits that join a neighbouring number
DigitsOnly == <<"1", "2">>

\* ',': a stray delimiter
StrayComma == <<",">>

\* 'none': prose without digits
ProseNone == <<"n", "o", "n", "e">>

Chunks ==
    {PairLine, PairReversed, PairBare, PairSpaced, OtherPair, ProseAnd,
     DigitsOnly, StrayComma, ProseNone}

\* The texts put together from at most n of the pieces.
RECURSIVE TextsOf(_, _)
TextsOf(pieces, n) ==
    IF n = 0 THEN {<<>>}
    ELSE LET prev == TextsOf(pieces, n - 1)
         IN  prev \cup {t \o c : t \in prev, c \in pieces}

\* data["correct_pairs"] as json.load returns it: a list of two-element
\* lists, here every sublist of three pairs.
JsonPairs == <<<<1, 2>>, <<3, 4>>, <<1, 12>>>>

RECURSIVE SubLists(_)
SubLists(s) ==
    IF Len(s) = 0 THEN {<<>>}
    ELSE LET rest == SubLists(Tail(s))
         IN  rest \cup {<<Head(s)>> \o t : t \in rest}

\* No enumerator is running.
EnumIdle ==
    /\ impl = "none"
    /\ keyKind = "int"
    /\ user_labels = EmptyStore
    /\ task = [type |-> "none"]
    /\ user_ids = <<>>
    /\ cutoff = NoDate
    /\ i = 0
    /\ j = 0
    /\ pairs = <<>>
    /\ pc = "idle"

InitEval ==
    /\ EnumIdle
    /\ FirstCall
    /\ ScriptsIdle
    /\ correct_pairs \in SubLists(JsonPairs)
    /\ prediction_text \in TextsOf(Chunks, MaxChunks)
    /\ ground_truth = {}
    /\ predicted = {}
    /\ metrics = NoMetrics
    /\ epc = "load"

NextEval ==
    \/ EvalLoad
    \/ EvalParse
    \/ EvalScore
    \/ EvalReport

SpecEval == InitEval /\ [][NextEval]_vars

\* compute_f1 has returned.
Scored == epc \in {"report", "reported", "raised"}

\* The three metrics of the dict are all x.
AllMetrics(x) ==
    metrics.precision = x /\ metrics.recall = x /\ metrics.f1 = x

\* C13: compute_f1 returns 1.0 three times when both sets are empty, and
\* 0.0 three times when exactly one of them is.
C13_DegenerateScores ==
    Scored =>
        /\ (predicted = {} /\ ground_truth = {}) => AllMetrics(One)
        /\ (predicted = {} /\ ground_truth # {}) => AllMetrics(Zero)
        /\ (predicted # {} /\ ground_truth = {}) => AllMetrics(Zero)

\* compute_f1 has returned 1.0 three times on two empty sets.
C13_Witness ==
    /\ epc = "report"
    /\ predicted = {}
    /\ ground_truth = {}
    /\ AllMetrics(One)

\* x <= 1 for a metric x.
AtMostOne(x) == x[1] <= x[2]

\* C14: on two non-empty sets, precision is |P n T| / |P|, recall is
\* |P n T| / |T|, f1 is 0 when P n T is empty and otherwise satisfies
\* f1 * (precision + recall) = 2 * precision * recall, which is
\* 2 |P n T| / (|P| + |T|); the three metrics are in [0, 1]; and
\* P = {(1,2)}, T = {(1,2),(3,4)} give 1, 1/2 and 2/3.
C14_F1Formula ==
    (Scored /\ predicted # {} /\ ground_truth # {}) =>
        LET tp == Cardinality(predicted \cap ground_truth)
            np == Cardinality(predicted)
            nt == Cardinality(ground_truth)
        IN  /\ metrics.precision[1] * np = tp * metrics.precision[2]
            /\ metrics.recall[1] * nt = tp * metrics.recall[2]
            /\ tp = 0 => metrics.f1 = Zero
            /\ metrics.f1[1] * (np + nt) = 2 * tp * metrics.f1[2]
            /\ Times(metrics.f1, Plus(metrics.precision, metrics.recall))
                  = Times(Times(Two, metrics.precision), metrics.recall)
            /\ \A x \in {metrics.precision, metrics.recall, metrics.f1} :
                  x[1] >= 0 /\ x[2] > 0 /\ AtMostOne(x)
            /\ (predicted = {<<1, 2>>}
                  /\ ground_truth = {<<1, 2>>, <<3, 4>>})
                  => /\ metrics.precision = <<1, 1>>
                     /\ metrics.recall = <<1, 2>>
                     /\ metrics.f1 = <<2, 3>>

\* compute_f1 has returned on P = {(1,2)} and T = {(1,2),(3,4)}.
C14_Witness ==
    /\ epc = "report"
    /\ predicted = {<<1, 2>>}
    /\ ground_truth = {<<1, 2>>, <<3, 4>>}

\* C15: an evaluation in which parse_pairs extracted no pair does not
\* raise, and its metrics are 0.0 on a non-empty ground truth and 1.0 on
\* an empty one.
C15_NoPairsIsNotAnError ==
    (epc \notin {"load", "parse"} /\ predicted = {}) =>
        /\ epc # "raised"
        /\ Scored =>
              IF ground_truth = {} THEN AllMetrics(One) ELSE AllMetrics(Zero)

\* The texts that mention the pair of 1 and 2 only, in either order, with
\* or without parentheses and white space, once or twice with prose in
\* between, or in parentheses up to MaxChunks times in a row.
MentionsOfOneTwo ==
    LET mentions == {PairLine, PairReversed, PairBare, PairSpaced}
        closed == {PairLine, PairReversed, PairSpaced}
    IN  mentions
        \cup {a \o ProseAnd \o b : a \in mentions, b \in mentions}
        \cup (TextsOf(closed, MaxChunks) \ {<<>>})

\* C16: every pair parse_pairs returns has its first component <= its
\* second, no two pairs of the set are the same two integers, and a text
\* that mentions 1 and 2 only, in whatever order, spelling and number of
\* times, yields the single pair (1, 2).
C16_PairsNormalised ==
    epc \notin {"load", "parse"} =>
        /\ \A pr \in predicted : pr[1] <= pr[2]
        /\ \A pr \in predicted : \A qr \in predicted :
              {pr[1], pr[2]} = {qr[1], qr[2]} => pr = qr
        /\ prediction_text \in MentionsOfOneTwo => predicted = {<<1, 2>>}

\* parse_pairs has read '(2,1) and 1,2'.
C16_Witness ==
    /\ epc = "score"
    /\ prediction_text = PairReversed \o ProseAnd \o PairBare
    /\ predicted = {<<1, 2>>}

(***************************************************************************)
(* The pair list of an enumerator written as text and as JSON, and read    *)
(* back by evaluate.main.                                                  *)
(***************************************************************************)
\* The character of a decimal digit.
DigitChar == <<"0", "1", "2", "3", "4", "5", "6", "7", "8", "9">>

\* The characters of a Python string of digits, and the string of a
\* sequence of digit characters.
CharsOfStr(s) == [k \in DOMAIN s |-> DigitChar[s[k] + 1]]
StrOfChars(cs) == [k \in DOMAIN cs |-> DigitValue[cs[k]]]

\* An id in an f-string: str(id) for an int, the string itself for a str.
FormatId(kind, id) == CharsOfStr(IF kind = "int" THEN str(id) ELSE id)

\* f"({pair[0]}, {pair[1]})\n"
FormatLine(kind, pair) ==
    <<"(">> \o FormatId(kind, pair[1]) \o <<",", " ">>
    \o FormatId(kind, pair[2]) \o <<")", "\n">>

\* for pair in pairs: f.write(...)
RECURSIVE WriteLines(_, _)
WriteLines(kind, list) ==
    IF Len(list) = 0 THEN <<>>
    ELSE FormatLine(kind, Head(list)) \o WriteLines(kind, Tail(list))

\* An id in a JSON document: a number (its decimal digits) or a string.
JsonEncode(kind, id) ==
    IF kind = "int" THEN [type |-> "number", text |-> CharsOfStr(str(id))]
    ELSE [type |-> "string", text |-> CharsOfStr(id)]

\* The Python value json.load builds from a number or a string.
JsonDecode(v) ==
    IF v.type = "number" THEN IntOfDigits(v.text) ELSE StrOfChars(v.text)

\* json.dump of [list(p) for p in correct_pairs]: an array of two-element
\* arrays.
json_dump(kind, list) ==
    [k \in DOMAIN list |->
        <<JsonEncode(kind, list[k][1]), JsonEncode(kind, list[k][2])>>]

\* json.load of that array.
json_load(doc) ==
    [k \in DOMAIN doc |-> <<JsonDecode(doc[k][1]), JsonDecode(doc[k][2])>>]

\* The pair list is written as lines of text, the candidate answer of the
\* evaluation.
WriteText ==
    /\ pc = "returned"
    /\ epc = "idle"
    /\ prediction_text' = WriteLines(IdKind, pairs)
    /\ epc' = "written"
    /\ UNCHANGED <<scriptVars, enumVars, callVars, correct_pairs,
                   ground_truth, predicted, metrics>>

\* The pair list is written into the data set file, which evaluate.main
\* loads.
WriteJson ==
    /\ epc = "written"
    /\ correct_pairs' = json_load(json_dump(IdKind, pairs))
    /\ epc' = "load"
    /\ UNCHANGED <<scriptVars, enumVars, callVars, prediction_text,
                   ground_truth, predicted, metrics>>

\* Events of two categories, of the production and of the lightweight
\* generator.
RoundTripEvents ==
    {[label |-> l, timestamp |-> Mar15] : l \in {"NUM", "LOC"}}

RoundTripLiteEvents ==
    {[category |-> c, timestamp |-> LiteStamp] : c \in {"NUM", "LOC"}}

RoundTripTask == [type |-> "both_have_any", categories |-> <<"NUM">>]

InitRoundTrip ==
    /\ Locals
    /\ FirstCall
    /\ ScriptsIdle
    /\ EvalIdle
    /\ \/ /\ impl = "prod"
          /\ keyKind = "int"
          /\ user_labels \in StoresOf(IntKeys, RoundTripEvents, MaxEvents)
          /\ task = RoundTripTask
       \/ /\ impl = "prod"
          /\ keyKind = "str"
          /\ user_labels \in StoresOf(StrKeys, RoundTripEvents, MaxEvents)
          /\ task = RoundTripTask
       \/ /\ impl = "lite"
          /\ keyKind = "str"
          /\ user_labels \in StoresOf(StrKeys, RoundTripLiteEvents, MaxEvents)
          /\ task = [criteria |-> RoundTripTask]

NextRoundTrip ==
    \/ Call
    \/ BothHaveAnyStep
    \/ Return
    \/ LiteCall
    \/ LiteBothHaveAnyStep
    \/ LiteReturn
    \/ WriteText
    \/ WriteJson
    \/ EvalLoad
    \/ EvalParse
    \/ EvalScore

SpecRoundTrip == InitRoundTrip /\ [][NextRoundTrip]_vars

\* The set parse_pairs read from the text is the set of the pairs of the
\* list (a set of tuples of int equals one of tuples of str only if both
\* are empty).
TextRouteExact ==
    IF IdKind = "int" THEN predicted = Range(pairs)
    ELSE predicted = {} /\ pairs = <<>>

\* The set loaded from the JSON document is the set of the pairs of the
\* list.
JsonRouteExact == ground_truth = Range(pairs)

\* C17: once the list an enumerator returned has been written as text and
\* as JSON, read back and scored against itself, both sets read back are
\* exactly the set of the pairs of the list, and the three metrics are 1.
C17_RoundTrip ==
    (pc = "returned" /\ epc = "report") =>
        /\ TextRouteExact
        /\ JsonRouteExact
        /\ AllMetrics(One)

(***************************************************************************)
(* generate_timestamp of both generators.                                  *)
(*                                                                         *)
(* A date is <<year, month, day>>; a datetime carries the seconds since    *)
(* midnight as a fourth component.                                         *)
(***************************************************************************)
\* Seconds of a day, and random.randint(0, 86400) of the lightweight
\* generator.
SecondsPerDay == 86400

IsLeap(y) == (y % 4 = 0 /\ y % 100 # 0) \/ y % 400 = 0

DaysInMonth(y, mo) ==
    IF mo = 2 THEN (IF IsLeap(y) THEN 29 ELSE 28)
    ELSE IF mo \in {4, 6, 9, 11} THEN 30 ELSE 31

\* The first day of the month after that of d.
FirstOfNextMonth(d) ==
    IF d[2] < 12 THEN <<d[1], d[2] + 1, 1>> ELSE <<d[1] + 1, 1, 1>>

\* d + timedelta(days=n) for n >= 0, month by month.
RECURSIVE AddDays(_, _)
AddDays(d, n) ==
    IF d[3] + n <= DaysInMonth(d[1], d[2]) THEN <<d[1], d[2], d[3] + n>>
    ELSE AddDays(FirstOfNextMonth(d),
                 n - (DaysInMonth(d[1], d[2]) - d[3] + 1))

\* (b - a).days for dates a <= b, month by month.
RECURSIVE DaysBetween(_, _)
DaysBetween(a, b) ==
    IF a[1] = b[1] /\ a[2] = b[2] THEN b[3] - a[3]
    ELSE (DaysInMonth(a[1], a[2]) - a[3] + 1)
         + DaysBetween(FirstOfNextMonth(a), b)

\* d + timedelta(days=n, seconds=s) for a date d at midnight: whole days
\* of s carry into the date.
AddDaysSeconds(d, n, s) ==
    LET day == AddDays(d, n + (s \div SecondsPerDay))
    IN  <<day[1], day[2], day[3], s % SecondsPerDay>>

\* %b and %m of strftime.
AbbrOfMonth ==
    <<"Jan", "Feb", "Mar", "Apr", "May", "Jun", "Jul", "Aug", "Sep", "Oct",
      "Nov", "Dec">>

DigitsOfMonth ==
    <<"01", "02", "03", "04", "05", "06", "07", "08", "09", "10", "11",
      "12">>

\* generate_timestamp of generate_oolong_pairs.py, for the value
\* random.randint(0, delta.days) returned.
generate_timestamp(start_date, end_date, random_days) ==
    LET dt == AddDays(start_date, random_days)
    IN  [fmt |-> "mdy", mon |-> AbbrOfMonth[dt[2]], day |-> dt[3],
         year |-> dt[1]]

\* generate_timestamp of generate_dataset.py, for the values the two
\* random.randint returned.
lite_generate_timestamp(start_date, end_date, random_days, random_seconds) ==
    LET dt == AddDaysSeconds(start_date, random_days, random_seconds)
    IN  [fmt |-> "iso_hms", mon |-> DigitsOfMonth[dt[2]], day |-> dt[3],
         year |-> dt[1], seconds |-> dt[4]]

\* The date ranges of the two generators.
ProdStart == <<2022, 10, 1>>
ProdEnd == <<2023, 6, 30>>
LiteStart == <<2023, 1, 1>>
LiteEnd == <<2023, 6, 30>>

\* Values of random.randint(0, 86400): the ends of the range and values
\* inside it.
SecondsDrawn == {0, 1, SecondsPerDay \div 2, SecondsPerDay - 1, SecondsPerDay}

\* The enumerators are not called; impl tells whose generate_timestamp is.
NoEnumerator ==
    /\ keyKind = "int"
    /\ user_labels = EmptyStore
    /\ task = [type |-> "none"]
    /\ user_ids = <<>>
    /\ cutoff = NoDate
    /\ i = 0
    /\ j = 0
    /\ pairs = <<>>
    /\ pc = "idle"

InitTimestamp ==
    /\ NoEnumerator
    /\ FirstCall
    /\ EvalIdle
    /\ SplitIdle
    /\ PipeIdle
    /\ target_tokens = 0
    /\ trec = <<>>
    /\ gen_entries = <<>>
    /\ current_tokens = 0
    /\ question_idx = 0
    /\ timestamp = <<>>
    /\ gpc = "timestamp"
    /\ \/ /\ impl = "prod"
          /\ \E d \in 0..DaysBetween(ProdStart, ProdEnd) :
                draws = <<[random_days |-> d]>>
       \/ /\ impl = "lite"
          /\ \E d \in 0..DaysBetween(LiteStart, LiteEnd), s \in SecondsDrawn :
                draws = <<[random_days |-> d, random_seconds |-> s]>>

ProdGenerateTimestamp ==
    /\ gpc = "timestamp"
    /\ impl = "prod"
    /\ timestamp' = generate_timestamp(ProdStart, ProdEnd,
                                       draws[1].random_days)
    /\ gpc' = "stamped"
    /\ UNCHANGED <<enumVars, callVars, evalVars, splitVars, pipeVars,
                   target_tokens, trec, draws, gen_entries, current_tokens,
                   question_idx>>

LiteGenerateTimestamp ==
    /\ gpc = "timestamp"
    /\ impl = "lite"
    /\ timestamp' = lite_generate_timestamp(LiteStart, LiteEnd,
                        draws[1].random_days, draws[1].random_seconds)
    /\ gpc' = "stamped"
    /\ UNCHANGED <<enumVars, callVars, evalVars, splitVars, pipeVars,
                   target_tokens, trec, draws, gen_entries, current_tokens,
                   question_idx>>

NextTimestamp ==
    \/ ProdGenerateTimestamp
    \/ LiteGenerateTimestamp

SpecTimestamp == InitTimestamp /\ [][NextTimestamp]_vars

\* The calendar day a timestamp string names.
DayOfStamp(ts) ==
    <<ts.year,
      IF ts.fmt = "mdy" THEN MonthOfAbbr[ts.mon] ELSE MonthOfDigits[ts.mon],
      ts.day>>

\* C25: the calendar day of the timestamp generate_timestamp returns is
\* never earlier than the start date and never later than the end date, in
\* both generators and for every draw.
C25_TimestampInRange ==
    gpc = "stamped" =>
        LET start == IF impl = "prod" THEN ProdStart ELSE LiteStart
            end == IF impl = "prod" THEN ProdEnd ELSE LiteEnd
        IN  /\ ~DateLess(DayOfStamp(timestamp), start)
            /\ ~DateLess(end, DayOfStamp(timestamp))

(***************************************************************************)
(* generate_dataset of generate_oolong_pairs.py.                           *)
(*                                                                         *)
(* random.seed(seed) fixes every later draw, so a run is determined by     *)
(* its arguments and by the sequence the generator returns.  That          *)
(* sequence is draws, read cyclically: iteration k of the loop gets        *)
(* draws[k % Len(draws) + 1], the user random.choice picks and the day     *)
(* random.randint picks.  count_tokens is the tokenizer's: the model        *)
(* gives every line the token count of its question.                       *)
(***************************************************************************)
\* The largest target_tokens of the model.
MaxTarget == 26

\* if question_idx > len(trec) * 20
SafetyFactor == 20

\* COARSE_LABELS[label_coarse]
CoarseLabelOf ==
    (0 :> "DESC") @@ (1 :> "ENTY") @@ (2 :> "HUM") @@ (3 :> "NUM")
    @@ (4 :> "LOC") @@ (5 :> "ABBR")

\* count_tokens(header)
HeaderTokens == 3

\* Question data sets: label_coarse, text, and the token count of the line
\* of the question.
Trecs ==
    {<<[label_coarse |-> 3, text |-> "q1", line_tokens |-> 1]>>,
     <<[label_coarse |-> 3, text |-> "q1", line_tokens |-> 1],
       [label_coarse |-> 4, text |-> "q2", line_tokens |-> 2]>>}

\* generate_user_id: the ends of random.randint(10000, 99999).
GenUsers == {10000, 99999}

\* One draw of an iteration: the user and the day.
DrawsOfIteration ==
    {[user_id |-> u, random_days |-> d] :
        u \in GenUsers, d \in {0, DaysBetween(ProdStart, ProdEnd)}}

\* The sequences the seeded generator returns: one or two draws, repeated.
DrawSequences ==
    {<<a>> : a \in DrawsOfIteration}
    \cup {<<a, b>> : a \in DrawsOfIteration, b \in DrawsOfIteration}

InitGen ==
    /\ NoEnumerator
    /\ impl = "prod"
    /\ FirstCall
    /\ EvalIdle
    /\ SplitIdle
    /\ PipeIdle
    /\ target_tokens \in 0..MaxTarget
    /\ trec \in Trecs
    /\ draws \in DrawSequences
    /\ gen_entries = <<>>
    /\ current_tokens = 0
    /\ question_idx = 0
    /\ timestamp = <<>>
    /\ gpc = "start"

\* Lines 253-277: entries = [], user_labels = defaultdict(list),
\* current_tokens = count_tokens(header), question_idx = 0.
GenStart ==
    /\ gpc = "start"
    /\ gen_entries' = <<>>
    /\ user_labels' = EmptyStore
    /\ current_tokens' = HeaderTokens
    /\ question_idx' = 0
    /\ gpc' = "loop"
    /\ UNCHANGED <<callVars, evalVars, splitVars, pipeVars, impl, keyKind,
                   task, user_ids, cutoff, i, j, pairs, pc, target_tokens,
                   trec, draws, timestamp>>

\* Mutation of KeepsGoing: the loop also runs when the count has just
\* reached the target.
KeepsGoingAtTarget(current, target) == current <= target

\* while current_tokens < target_tokens
KeepsGoing(current, target) == current < target

\* One iteration of the loop, with the safety check that ends it.
GenStep ==
    /\ gpc = "loop"
    /\ KeepsGoing(current_tokens, target_tokens)
    /\ LET trec_entry == trec[(question_idx % Len(trec)) + 1]
           draw == draws[(question_idx % Len(draws)) + 1]
           user_id == draw.user_id
           stamp == generate_timestamp(ProdStart, ProdEnd, draw.random_days)
           label == CoarseLabelOf[trec_entry.label_coarse]
       IN  /\ timestamp' = stamp
           /\ gen_entries' =
                 Append(gen_entries,
                        [user_id |-> user_id, timestamp |-> stamp,
                         question |-> trec_entry.text, label |-> label])
           /\ user_labels' =
                 Put(user_labels, user_id,
                     [label |-> label, timestamp |-> stamp])
           /\ current_tokens' = current_tokens + trec_entry.line_tokens
    /\ question_idx' = question_idx + 1
    /\ gpc' = IF question_idx' > Len(trec) * SafetyFactor THEN "break"
              ELSE "loop"
    /\ UNCHANGED <<callVars, evalVars, splitVars, pipeVars, impl, keyKind,
                   task, user_ids, cutoff, i, j, pairs, pc, target_tokens,
                   trec, draws>>

\* return entries, dict(user_labels): after the loop test failed or after
\* the break.
GenReturn ==
    /\ \/ gpc = "loop" /\ ~KeepsGoing(current_tokens, target_tokens)
       \/ gpc = "break"
    /\ gpc' = "returned"
    /\ UNCHANGED <<enumVars, callVars, evalVars, splitVars, pipeVars,
                   target_tokens, trec, draws, gen_entries, current_tokens,
                   question_idx, timestamp>>

NextGen ==
    \/ GenStart
    \/ GenStep
    \/ GenReturn

SpecGen == InitGen /\ [][NextGen]_vars

\* The events of the entries of user u, in the order of the entries.
EventsOfEntries(u) ==
    LET mine == SelectSeq(gen_entries, LAMBDA e : e.user_id = u)
    IN  [k \in DOMAIN mine |->
            [label |-> mine[k].label, timestamp |-> mine[k].timestamp]]

\* The number of events of the store, all users together.
StoreSize ==
    Cardinality(UNION {{<<u, k>> : k \in DOMAIN user_labels[u]} :
                          u \in DOMAIN user_labels})

\* C21: at every point of the loop of generate_dataset the event list of
\* each user is the list of the entries of that user, label and timestamp,
\* in order; the store holds as many events as there are entries; and its
\* keys are the users of the entries, each with at least one event.
C21_StoreMirrorsEntries ==
    gpc \in {"loop", "break", "returned"} =>
        /\ DOMAIN user_labels =
              {gen_entries[k].user_id : k \in DOMAIN gen_entries}
        /\ \A u \in DOMAIN user_labels :
              /\ user_labels[u] = EventsOfEntries(u)
              /\ Len(user_labels[u]) >= 1
        /\ StoreSize = Len(gen_entries)

\* The loop has appended the same event twice to one user and an event to
\* another user.
C21_Witness ==
    /\ gpc = "loop"
    /\ Cardinality(DOMAIN user_labels) = 2
    /\ \E u \in DOMAIN user_labels :
          /\ Len(user_labels[u]) >= 2
          /\ user_labels[u][1] = user_labels[u][2]

\* The token count of the line of the last entry.
LastLineTokens == trec[((question_idx - 1) % Len(trec)) + 1].line_tokens

\* The safety check has ended the loop.
SafetyStopped == question_idx > Len(trec) * SafetyFactor

\* The loop adds an entry only while the count is below the target, never
\* more than 20 * len(trec) + 1 of them, and leaves without the safety
\* check only with the target reached.
LoopBounded ==
    gpc \in {"loop", "break", "returned"} =>
        /\ Len(gen_entries) = question_idx
        /\ question_idx <= SafetyFactor * Len(trec) + 1
        /\ gpc = "loop" => ~SafetyStopped
        /\ gpc = "break" => SafetyStopped
        /\ question_idx > 0 =>
              current_tokens - LastLineTokens < target_tokens
        /\ (gpc = "returned" /\ ~SafetyStopped) =>
              current_tokens >= target_tokens

\* The number of steps the run of generate_dataset can still take, at most.
StepsLeft ==
    CASE gpc = "start" -> SafetyFactor * Len(trec) + 3
      [] gpc = "loop" -> SafetyFactor * Len(trec) + 2 - question_idx
      [] gpc = "break" -> 1
      [] OTHER -> 0

\* An iteration that is due can be carried out: the data set has a question
\* for it, with a known coarse label, and the run is at one of its steps.
NeverStuck ==
    /\ gpc \in {"start", "loop", "break", "returned"}
    /\ (gpc = "loop" /\ KeepsGoing(current_tokens, target_tokens)) =>
          /\ (question_idx % Len(trec)) + 1 \in DOMAIN trec
          /\ trec[(question_idx % Len(trec)) + 1].label_coarse
                \in DOMAIN CoarseLabelOf

\* C26: the loop of generate_dataset ends for every target_tokens: no
\* entry is added once the count has reached the target, the safety check
\* ends the loop after at most 20 * len(trec) + 1 entries, a loop that ends
\* without the safety check has count >= target_tokens, with the count
\* below the target before its last entry; every step lowers the bounded
\* number of steps left and an iteration that is due can be carried out.
C26_LoopTerminates ==
    [][/\ LoopBounded' /\ NeverStuck'
       /\ StepsLeft' < StepsLeft /\ StepsLeft' >= 0]_vars

\* The safety check ended the loop before the target was reached.
C26_Witness ==
    /\ gpc = "returned"
    /\ SafetyStopped
    /\ current_tokens < target_tokens
    /\ Len(gen_entries) = SafetyFactor * Len(trec) + 1

(***************************************************************************)
(* The date branch of compute_ground_truth_pairs on timestamps with a time *)
(* of day.                                                                 *)
(***************************************************************************)
MaxStamped == 3

\* The first second of a day, noon and the last second.
DaySeconds == {0, SecondsPerDay \div 2, SecondsPerDay - 1}

\* A timestamp of the lightweight generator in March 2023.
StampOn(day, seconds) ==
    [fmt |-> "iso_hms", mon |-> "03", day |-> day, year |-> 2023,
     seconds |-> seconds]

\* Events of the date category on the day before the bound and on the bound
\* day, at three times of the day, and an event of another category.
StampedEvents ==
    {[category |-> "ENTY", timestamp |-> StampOn(d, s)] :
        d \in {14, 15}, s \in DaySeconds}
    \cup {[category |-> "NUM", timestamp |-> StampOn(15, 0)]}

\* Task 4 of generate_task, and the same task with a bound of kind after.
LiteDateTasks ==
    {[criteria |-> [type |-> "both_have_any_with_date",
                    categories |-> <<"ENTY", "NUM">>,
                    date_constraint |-> c]] :
        c \in {[category |-> "ENTY", before |-> BoundIso],
               [category |-> "ENTY", after |-> BoundIso]}}

InitLiteDate ==
    /\ Locals
    /\ FirstCall
    /\ ScriptsIdle
    /\ EvalIdle
    /\ impl = "lite"
    /\ keyKind = "str"
    /\ user_labels \in StoresOf(StrKeys, StampedEvents, MaxStamped)
    /\ task \in LiteDateTasks

NextLiteDate ==
    \/ LiteCall
    \/ LiteWithDateStep
    \/ LiteReturn

SpecLiteDate == InitLiteDate /\ [][NextLiteDate]_vars

\* The calendar day of a datetime.
DayOf(dt) == <<dt[1], dt[2], dt[3]>>

\* The date constraint of the lightweight task.
LiteConstraint == task.criteria.date_constraint

\* The events of the date category in the store.
DateEvents ==
    {e \in UNION {Range(user_labels[u]) : u \in DOMAIN user_labels} :
        e.category = LiteConstraint.category}

\* Every event of the date category of a user is on a day for which ok holds
\* of that day and the bound day.
AllDays(uid, bound, ok(_, _)) ==
    \A k \in DOMAIN user_labels[str(uid)] :
        user_labels[str(uid)][k].category = LiteConstraint.category =>
            ok(DayOf(strptime_stamp(user_labels[str(uid)][k].timestamp)),
               DayOf(strptime_date(bound)))

EarlierDay(d, b) == DateLess(d, b)

LaterDay(d, b) == DateLess(b, d)

\* The returned list has exactly the pairs of users, lower id first, that
\* both have a target category and whose events of the date category are all
\* on days for which ok holds.
PairsDecidedByDay(bound, ok(_, _)) ==
    \A a \in UserNums, b \in UserNums :
        <<a, b>> \in Range(pairs) <=>
            /\ a < b
            /\ str(a) \in DOMAIN user_labels
            /\ str(b) \in DOMAIN user_labels
            /\ LiteBothHaveAny(user_labels[str(a)], user_labels[str(b)],
                               Range(task.criteria.categories))
            /\ AllDays(a, bound, ok)
            /\ AllDays(b, bound, ok)

\* C22: a both_have_any_with_date task with a bound of kind after is
\* evaluated by the lightweight enumerator: the call returns, with the pairs
\* whose events of the date category are all later than the bound.
C22_AfterBoundEvaluated ==
    (/\ impl = "lite"
     /\ task.criteria.type = "both_have_any_with_date"
     /\ "after" \in DOMAIN LiteConstraint
     /\ pc \in {"returned", "raised"}) =>
        /\ pc = "returned"
        /\ PairsDecidedByDay(LiteConstraint.after, LaterDay)

\* The lightweight enumerator is in or past its loop on a before bound.
BeforeBoundRun ==
    /\ impl = "lite"
    /\ task.criteria.type = "both_have_any_with_date"
    /\ "before" \in DOMAIN LiteConstraint
    /\ pc \in {"loop", "returned"}

\* C24: the date check of the lightweight enumerator is decided by the
\* calendar day: two events of the date category on the same day get the
\* same outcome whatever their time of day, an event on the bound day fails
\* a before bound, an event on the day before passes it, and the returned
\* pairs are those that the days alone decide.
C24_DayGranularity ==
    BeforeBoundRun =>
        /\ \A e1 \in DateEvents, e2 \in DateEvents :
              LET t1 == strptime_stamp(e1.timestamp)
                  t2 == strptime_stamp(e2.timestamp)
              IN  DayOf(t1) = DayOf(t2) =>
                     (StampAtOrAfter(t1, cutoff) <=> StampAtOrAfter(t2, cutoff))
        /\ \A e \in DateEvents :
              LET ts == strptime_stamp(e.timestamp)
              IN  /\ DayOf(ts) = DayOf(cutoff) => StampAtOrAfter(ts, cutoff)
                  /\ DayOf(ts) = <<2023, 3, 14>> => ~StampAtOrAfter(ts, cutoff)
        /\ pc = "returned" =>
              PairsDecidedByDay(LiteConstraint.before, EarlierDay)

\* A pair was returned whose first user has an event of the date category
\* in the last second of the day before the bound, while another user, with
\* an event in the first second of the bound day, is in no pair.
C24_Witness ==
    /\ BeforeBoundRun
    /\ pc = "returned"
    /\ \E q \in Range(pairs) :
          [category |-> "ENTY", timestamp |-> StampOn(14, SecondsPerDay - 1)]
             \in Range(user_labels[str(q[1])])
    /\ \E u \in DOMAIN user_labels :
          /\ [category |-> "ENTY", timestamp |-> StampOn(15, 0)]
                \in Range(user_labels[u])
          /\ \A q \in Range(pairs) : int(u) # q[1] /\ int(u) # q[2]

(***************************************************************************)
(* The two enumerators on asymmetric tasks.                                *)
(***************************************************************************)
\* The asymmetric tasks in the layout of the lightweight generator.
LiteAllAsymTasks == {[criteria |-> t] : t \in AsymTasks}

InitEquiv ==
    /\ Locals
    /\ FirstCall
    /\ ScriptsIdle
    /\ EvalIdle
    /\ impl = "lite"
    /\ keyKind = "str"
    /\ user_labels \in StoresOf(StrKeys, LiteEvents, MaxEvents)
    /\ task \in LiteAllAsymTasks

NextEquiv ==
    \/ LiteCall
    \/ LiteAsymmetricStep
    \/ LiteReturn

SpecEquiv == InitEquiv /\ [][NextEquiv]_vars

\* The store of the lightweight generator in the layout of the production
\* generator: int keys, and the category of an event under "label".
ProdStoreOf(s) ==
    [n \in {int(k) : k \in DOMAIN s} |->
        [x \in DOMAIN s[str(n)] |->
            [label |-> s[str(n)][x].category,
             timestamp |-> s[str(n)][x].timestamp]]]

\* C23: on every store and every asymmetric task, the list that the
\* lightweight enumerator returns is the list that the production
\* enumerator returns for the same store and task.
C23_LiteEqualsProduction ==
    (/\ impl = "lite"
     /\ task.criteria.type = "asymmetric"
     /\ pc = "returned") =>
        pairs = AsymmetricPairs("int", ProdStoreOf(user_labels),
                                task.criteria.user_a, task.criteria.user_b)

(***************************************************************************)
(* split_for_classification.py and the scripts that read its batch files.  *)
(***************************************************************************)
MaxQuestions == 7
MaxBatches == 4

\* The number of batches that the script asks for, and that classify_batch
\* and classify_questions read: range(3).
ScriptBatches == 3

\* Mutation of Slice: the slice stops one element early.
SliceShort(list, lo, hi) ==
    SubSeq(list, lo + 1, (IF hi < Len(list) THEN hi ELSE Len(list)) - 1)

\* list[lo:hi] for 0 <= lo <= hi: the end is clamped to the length.
Slice(list, lo, hi) ==
    SubSeq(list, lo + 1, IF hi < Len(list) THEN hi ELSE Len(list))

\* for i in range(0, len(questions_list), batch_size): batches.append(...)
RECURSIVE BatchesFrom(_, _, _, _)
BatchesFrom(list, k, batch_size, acc) ==
    IF k >= Len(list) THEN acc
    ELSE BatchesFrom(list, k + batch_size, batch_size,
                     Append(acc, Slice(list, k, k + batch_size)))

split_into_batches(list, n) ==
    LET batch_size == (Len(list) \div n) + 1
    IN  BatchesFrom(list, 0, batch_size, <<>>)

\* No batch file exists.
NoFiles == [k \in {} |-> <<>>]

\* The batch files that an earlier run of the script has left: none, or
\* those of an earlier run that wrote two or three batches.
EarlierFiles ==
    {NoFiles}
    \cup {[k \in 0..(n - 1) |-> [content |-> <<0>>, run |-> "earlier"]] :
             n \in {2, 3}}

\* The script calls with num_batches = 3; the function is also called on
\* its own with any positive number of batches.
InitSplit ==
    /\ EnumIdle
    /\ FirstCall
    /\ EvalIdle
    /\ GenIdle
    /\ PipeIdle
    /\ \E n \in 0..MaxQuestions : questions_list = [k \in 1..n |-> k]
    /\ batches = <<>>
    /\ \/ /\ spc = "main"
          /\ num_batches = ScriptBatches
          /\ batch_files \in EarlierFiles
       \/ /\ spc = "call"
          /\ num_batches \in 1..MaxBatches
          /\ batch_files = NoFiles

\* batches = split_into_batches(questions_list, num_batches)
SplitCall ==
    /\ spc \in {"main", "call"}
    /\ batches' = split_into_batches(questions_list, num_batches)
    /\ spc' = IF spc = "main" THEN "split" ELSE "returned"
    /\ UNCHANGED <<enumVars, callVars, evalVars, genVars, pipeVars,
                   questions_list, num_batches, batch_files>>

\* for i, batch in enumerate(batches): json.dump(batch, batch_<i>.json)
WriteBatches ==
    /\ spc = "split"
    /\ batch_files' =
          [k \in DOMAIN batch_files \cup 0..(Len(batches) - 1) |->
              IF k < Len(batches)
              THEN [content |-> batches[k + 1], run |-> "current"]
              ELSE batch_files[k]]
    /\ spc' = "written"
    /\ UNCHANGED <<enumVars, callVars, evalVars, genVars, pipeVars,
                   questions_list, num_batches, batches>>

\* classify_batch.py: for i in range(3): open(batch_<i>.json); a missing
\* file raises FileNotFoundError.
ClassifyBatch ==
    /\ spc = "written"
    /\ spc' = IF 0..(ScriptBatches - 1) \subseteq DOMAIN batch_files
              THEN "prepared" ELSE "raised"
    /\ UNCHANGED <<enumVars, callVars, evalVars, genVars, pipeVars,
                   questions_list, num_batches, batches, batch_files>>

\* classify_questions.py: for i in range(3): process_batch(batch_<i>.json)
ClassifyQuestions ==
    /\ spc = "prepared"
    /\ spc' = IF 0..(ScriptBatches - 1) \subseteq DOMAIN batch_files
              THEN "classified" ELSE "raised"
    /\ UNCHANGED <<enumVars, callVars, evalVars, genVars, pipeVars,
                   questions_list, num_batches, batches, batch_files>>

NextSplit ==
    \/ SplitCall
    \/ WriteBatches
    \/ ClassifyBatch
    \/ ClassifyQuestions

SpecSplit == InitSplit /\ [][NextSplit]_vars

\* The batches in order, one after the other.
RECURSIVE Concat(_)
Concat(ss) == IF ss = <<>> THEN <<>> ELSE Head(ss) \o Concat(Tail(ss))

\* split_into_batches has returned.
SplitDone ==
    spc \in {"returned", "split", "written", "prepared", "classified",
             "raised"}

\* C27: split_into_batches returns a partition of its input into
\* consecutive batches: the batches in order make up the input list, no
\* batch is empty, and all batches but the last have the same size.
C27_BatchesPartition ==
    SplitDone =>
        /\ Concat(batches) = questions_list
        /\ \A k \in DOMAIN batches : Len(batches[k]) > 0
        /\ \A k \in DOMAIN batches, l \in DOMAIN batches :
              (k < Len(batches) /\ l < Len(batches)) =>
                  Len(batches[k]) = Len(batches[l])

\* Three batches were returned, the last one shorter than the others.
C27_Witness ==
    /\ spc = "returned"
    /\ Len(batches) = 3
    /\ Len(batches[3]) < Len(batches[1])
    /\ Len(batches[1]) > 1

\* C28: with num_batches = 3 the split returns exactly 3 batches, and the
\* files batch_0, batch_1 and batch_2 that the following scripts open were
\* all written by the current run.
C28_ThreeBatchFiles ==
    (num_batches = ScriptBatches
     /\ spc \in {"written", "prepared", "classified", "raised"}) =>
        /\ Len(batches) = ScriptBatches
        /\ \A k \in 0..(ScriptBatches - 1) :
              /\ k \in DOMAIN batch_files
              /\ batch_files[k].run = "current"

(***************************************************************************)
(* find_user_pairs.py on the classified questions, next to the production  *)
(* enumerator on the store of the same users and categories.               *)
(***************************************************************************)
MaxItems == 2

\* LABEL_FULL_NAMES, read from the full name to the label.
LabelOfFullName ==
    ("numeric value" :> "NUM") @@ ("location" :> "LOC") @@ ("entity" :> "ENTY")

\* The classified questions: a category and the users who asked, as strings
\* in sorted order (process_questions.py).
ClassifiedItems ==
    {[category |-> c, users |-> Sorted("str", us)] :
        c \in DOMAIN LabelOfFullName, us \in (SUBSET StrKeys) \ {{}}}

RECURSIVE ListsOf(_, _)
ListsOf(S, n) ==
    IF n = 0 THEN {<<>>}
    ELSE LET prev == ListsOf(S, n - 1)
         IN  prev \cup {Append(l, x) : l \in prev, x \in S}

\* The store in which each user has the categories of the questions that
\* list the user; the keys are the ids as listed, or converted with int().
RECURSIVE PutUsers(_, _, _, _)
PutUsers(s, kind, users, e) ==
    IF Len(users) = 0 THEN s
    ELSE PutUsers(Put(s, IF kind = "int" THEN int(Head(users))
                         ELSE Head(users), e),
                  kind, Tail(users), e)

RECURSIVE StoreOfData(_, _)
StoreOfData(kind, data) ==
    IF Len(data) = 0 THEN EmptyStore
    ELSE PutUsers(StoreOfData(kind, SubSeq(data, 1, Len(data) - 1)), kind,
                  data[Len(data)].users,
                  [label |-> LabelOfFullName[data[Len(data)].category],
                   timestamp |-> Mar15])

\* target_users.update(item['users']) for the items of the two categories.
RECURSIVE TargetUsers(_)
TargetUsers(data) ==
    IF Len(data) = 0 THEN {}
    ELSE TargetUsers(Tail(data))
         \cup (IF Head(data).category \in {"numeric value", "location"}
               THEN Range(Head(data).users) ELSE {})

\* sorted(target_users, key=int)
RECURSIVE SortedByInt(_)
SortedByInt(S) ==
    IF S = {} THEN <<>>
    ELSE LET u == CHOOSE x \in S : \A y \in S : int(x) <= int(y)
         IN  <<u>> \o SortedByInt(S \ {u})

find_users_with_numeric_or_location(data) == SortedByInt(TargetUsers(data))

\* sorted(list): insertion into the sorted tail.
RECURSIVE SortedInts(_)
SortedInts(list) ==
    IF Len(list) = 0 THEN <<>>
    ELSE LET rest == SortedInts(Tail(list))
             less == SelectSeq(rest, LAMBDA x : x < Head(list))
             more == SelectSeq(rest, LAMBDA x : ~(x < Head(list)))
         IN  less \o <<Head(list)>> \o more

\* for i in range(len(user_ids)): for j in range(i + 1, len(user_ids)):
\* pairs.append((user_ids[i], user_ids[j]))
RECURSIVE PairsFrom(_, _, _, _)
PairsFrom(ids, k, l, acc) ==
    IF k > Len(ids) THEN acc
    ELSE IF l > Len(ids) THEN PairsFrom(ids, k + 1, k + 2, acc)
    ELSE PairsFrom(ids, k, l + 1, Append(acc, <<ids[k], ids[l]>>))

find_user_pairs(users) ==
    LET ids == SortedInts([k \in DOMAIN users |-> int(users[k])])
    IN  PairsFrom(ids, 1, 2, <<>>)

\* Task 1 of OOLONG_PAIRS_TASKS.
NumOrLocTask == [type |-> "both_have_any", categories |-> <<"NUM", "LOC">>]

InitPipe ==
    /\ Locals
    /\ FirstCall
    /\ EvalIdle
    /\ GenIdle
    /\ SplitIdle
    /\ impl = "prod"
    /\ keyKind \in {"str", "int"}
    /\ classified_data \in ListsOf(ClassifiedItems, MaxItems)
    /\ user_labels = StoreOfData(keyKind, classified_data)
    /\ task = NumOrLocTask
    /\ target_users = <<>>
    /\ found_pairs = <<>>
    /\ fpc = "loaded"

\* target_users = find_users_with_numeric_or_location(classified_data)
FindUsers ==
    /\ fpc = "loaded"
    /\ target_users' = find_users_with_numeric_or_location(classified_data)
    /\ fpc' = "users"
    /\ UNCHANGED <<enumVars, callVars, evalVars, genVars, splitVars,
                   classified_data, found_pairs>>

\* pairs = find_user_pairs(target_users)
FindPairs ==
    /\ fpc = "users"
    /\ found_pairs' = find_user_pairs(target_users)
    /\ fpc' = "pairs"
    /\ UNCHANGED <<enumVars, callVars, evalVars, genVars, splitVars,
                   classified_data, target_users>>

NextPipe ==
    \/ FindUsers
    \/ FindPairs
    \/ Call
    \/ BothHaveAnyStep
    \/ Return

SpecPipe == InitPipe /\ [][NextPipe]_vars

\* Both the pipeline and the enumerator have finished.
PipeBothDone == fpc = "pairs" /\ pc = "returned"

\* The two lists have the same pairs in the same order; a str id never
\* equals an int id.
SameLists ==
    /\ Len(pairs) = Len(found_pairs)
    /\ Len(pairs) > 0 => (keyKind = "int" /\ pairs = found_pairs)

\* The pipeline's list has n * (n - 1) / 2 pairs for n qualifying users,
\* each with the lower id first and none repeated.
PipeShape ==
    LET n == Cardinality(TargetUsers(classified_data))
    IN  /\ Len(found_pairs) = (n * (n - 1)) \div 2
        /\ \A k \in DOMAIN found_pairs : found_pairs[k][1] < found_pairs[k][2]
        /\ \A k \in DOMAIN found_pairs, l \in DOMAIN found_pairs :
              found_pairs[k] = found_pairs[l] => k = l

\* C29: the list of find_user_pairs over the users found by
\* find_users_with_numeric_or_location is the list, in the same order, that
\* the both_have_any enumeration with categories NUM and LOC returns on the
\* store built from the same classified data, and it has n * (n - 1) / 2
\* pairs for n qualifying users, lower id first, none repeated.
C29_PipelineEqualsEngine ==
    PipeBothDone => (SameLists /\ PipeShape)

====
